---- MODULE Spec2Model ----
(***************************************************************************)
(* Verification model of boxbox: the review tree assembly of the race      *)
(* page, the race page's review handlers, the YouTube quota manager and    *)
(* the thumbnail resolution of a race card.                                *)
(***************************************************************************)
EXTENDS Integers, Sequences, FiniteSets, TLC

(***************************************************************************)
(* Bounds of the model.                                                    *)
(***************************************************************************)
MaxReviews == 3
MaxTime == 2
MaxLimit == 5      \* the largest ceiling setDailyLimit is called with
MaxNow == 5        \* the clock stops here
DayLen == 2        \* clock ticks per local day
MaxRows == 3       \* reviews ever inserted for the race
MaxItems == 2      \* items in one answer of the video search
MaxRounds == 2     \* rounds of a season the race API answers with
MaxChecks == 4     \* checks for new races ever started

\* parent_review_id of a top-level review (null)
NoParent == 0

VARIABLES
  \* review tree assembly (RacePage.organizeReviews)
  allReviews,        \* the flat list handed to organizeReviews
  topLevelReviews,   \* the forest it returned
  treePc,            \* "input" before the call, "done" after it
  \* quota manager (QuotaManager singleton and localStorage)
  requestCount,      \* QuotaManager.requestCount
  dailyLimit,        \* QuotaManager.dailyLimit
  storage,           \* localStorage['youtube_api_quota']: NoItem or a QuotaInfo
  now,               \* the clock
  recorded,          \* recordRequest calls since the counter was zero, -1 when
                     \* the counter was set otherwise
  shownQuotaInfo,    \* the QuotaInfo the admin page shows (quotaInfo state)
  \* race page (RacePage) and the reviews table of the race
  dbReviews,         \* rows of public.reviews for the race
  nextId,            \* id (and creation time) of the next inserted row
  user,              \* the signed-in user the page is open for
  reviews,           \* reviews state: the rows loaded by the last fetchReviews
  userReview,        \* userReview state
  editingReview,     \* editingReview state
  newRating,         \* newRating state (0 stands for 0 and for null)
  \* race cards (RaceCard), thumbnail service and the tables they use
  cards,             \* per card: its race prop, its position in loadThumbnail /
                     \* getRaceHighlightThumbnail, its state and the calls it issued
  cache,             \* rows of thumbnail_cache
  dbRaces,           \* thumbnail_url of the races rows, by (name, year)
  apiKey,            \* whether VITE_YOUTUBE_API_KEY is configured
  \* race-thumbnails edge function
  edge,              \* its YOUTUBE_API_KEY setting, the last request, the
                     \* response to it and the video it accepted
  \* the selection loop of searchYouTubeHighlights, on its own
  answer,            \* the race name and responseData.items
  selected,          \* the item the loop stopped at, NoVideo for none, and
                     \* [pending |-> TRUE] before the loop ran
  \* a call of getOptimizedThumbnail
  optimized,         \* its position, the requests it issued itself, the video
                     \* and quality of its fresh search, and the URL it returned
  \* AutoImportService
  isRunning,         \* the "already running" flag
  importInterval,    \* TRUE once the periodic timer is set
  runs,              \* per caller, its call of checkAndImportNewRaces
  racesTable,        \* the rows of the races table, by season and round
  checks             \* how many checks were started

treeVars == <<allReviews, topLevelReviews, treePc>>

quotaVars == <<requestCount, dailyLimit, storage, now, recorded, shownQuotaInfo>>

pageVars == <<dbReviews, nextId, user, reviews, userReview, editingReview, newRating>>

thumbVars == <<cards, cache, dbRaces, apiKey>>

\* what the actions of one part leave alone
selectVars == <<answer, selected>>

importVars == <<isRunning, importInterval, runs, racesTable, checks>>

notTreeVars == <<quotaVars, pageVars, thumbVars, edge, selectVars, optimized, importVars>>
notQuotaVars == <<treeVars, pageVars, thumbVars, edge, selectVars, optimized, importVars>>
notPageVars == <<treeVars, quotaVars, thumbVars, edge, selectVars, optimized, importVars>>
notThumbVars == <<treeVars, pageVars, now, shownQuotaInfo, edge, selectVars, optimized, importVars>>
notEdgeVars == <<treeVars, quotaVars, pageVars, cards, dbRaces, apiKey, selectVars, optimized, importVars>>
notSelectVars == <<treeVars, quotaVars, pageVars, thumbVars, edge, optimized, importVars>>
notImportVars == <<treeVars, quotaVars, pageVars, thumbVars, edge, selectVars, optimized>>
notOptimizedVars == <<treeVars, pageVars, edge, selectVars, importVars>>

vars == <<allReviews, topLevelReviews, treePc,
          requestCount, dailyLimit, storage, now, recorded, shownQuotaInfo,
          dbReviews, nextId, user, reviews, userReview, editingReview, newRating,
          cards, cache, dbRaces, apiKey, edge, answer, selected, optimized,
          isRunning, importInterval, runs, racesTable, checks>>

(***************************************************************************)
(* Review tree assembly.  A review is [id, parent_review_id, created_at];  *)
(* a forest is [top |-> sequence of ids, replies |-> id -> sequence of     *)
(* ids], the replies arrays of the nodes of reviewMap.                     *)
(***************************************************************************)
ReviewIdsOf(rs) == {rs[i].id : i \in 1..Len(rs)}

ReviewOf(rs, id) == CHOOSE r \in {rs[i] : i \in 1..Len(rs)} : r.id = id

IdsOf(rs) == [i \in 1..Len(rs) |-> rs[i].id]

\* Array.prototype.sort with the comparator a.created_at - b.created_at:
\* a stable sort, written as an insertion sort
RECURSIVE InsertByCreated(_, _, _)
InsertByCreated(rs, sorted, id) ==
  IF sorted = <<>> THEN <<id>>
  ELSE IF ReviewOf(rs, sorted[Len(sorted)]).created_at <= ReviewOf(rs, id).created_at
       THEN Append(sorted, id)
       ELSE Append(InsertByCreated(rs, SubSeq(sorted, 1, Len(sorted) - 1), id),
                   sorted[Len(sorted)])

\* mutant: the third pass is left out, the replies stay in push order
SortByCreatedSkipped(rs, ids) == ids

RECURSIVE SortByCreated(_, _)
SortByCreated(rs, ids) ==
  IF ids = <<>> THEN <<>>
  ELSE InsertByCreated(rs, SortByCreated(rs, SubSeq(ids, 1, Len(ids) - 1)), ids[Len(ids)])

\* second pass: the replies pushed onto a node, in input order
PushedReplies(rs, pid) ==
  IdsOf(SelectSeq(rs, LAMBDA r : r.parent_review_id = pid))

\* mutant: a reply whose parent is not in the map is kept as a top-level node
PushedTopLevelKeepingOrphans(rs) ==
  IdsOf(SelectSeq(rs, LAMBDA r : \/ r.parent_review_id = NoParent
                                 \/ r.parent_review_id \notin ReviewIdsOf(rs)))

\* second pass: the reviews without a parent reference, in input order
PushedTopLevel(rs) ==
  IdsOf(SelectSeq(rs, LAMBDA r : r.parent_review_id = NoParent))

\* the nodes sortReplies visits: the top-level nodes and, below each one,
\* the nodes of its replies array
RECURSIVE VisitedFrom(_, _, _)
VisitedFrom(rs, ids, fuel) ==
  IF fuel = 0 \/ ids = <<>> THEN {}
  ELSE UNION {{ids[i]} \cup VisitedFrom(rs, PushedReplies(rs, ids[i]), fuel - 1)
              : i \in 1..Len(ids)}

organizeReviews(rs) ==
  LET top == PushedTopLevel(rs)
      visited == VisitedFrom(rs, top, Len(rs) + 1)
  IN  [top |-> top,
       replies |-> [id \in ReviewIdsOf(rs) |->
                      IF id \in visited
                      THEN SortByCreated(rs, PushedReplies(rs, id))
                      ELSE PushedReplies(rs, id)]]

\* the number of nodes of a forest: the listed nodes and all their descendants
RECURSIVE CountNodes(_, _, _)
CountNodes(f, ids, fuel) ==
  IF fuel = 0 \/ ids = <<>> THEN 0
  ELSE 1 + CountNodes(f, f.replies[ids[1]], fuel - 1)
         + CountNodes(f, SubSeq(ids, 2, Len(ids)), fuel)

\* the ids of the nodes of a forest reachable from the listed nodes
RECURSIVE NodesOf(_, _, _)
NodesOf(f, ids, fuel) ==
  IF fuel = 0 \/ ids = <<>> THEN {}
  ELSE UNION {{ids[i]} \cup NodesOf(f, f.replies[ids[i]], fuel - 1) : i \in 1..Len(ids)}

EmptyForest == [top |-> <<>>, replies |-> <<>>]

\* the lists of reviews a race can hold: ids are unique and numbered in
\* insertion order, a parent reference names a review inserted before the
\* reply, created_at (the insertion time) does not decrease with the id, and
\* any selection of the rows, in any order, may be the list that was loaded
ReviewRows ==
  {rows \in [1..MaxReviews -> [parent_review_id : 0..MaxReviews, created_at : 1..MaxTime]] :
     \A i \in 1..MaxReviews :
       /\ rows[i].parent_review_id < i
       /\ \A j \in 1..MaxReviews : i < j => rows[i].created_at <= rows[j].created_at}

DistinctIdSeqs ==
  UNION {{s \in [1..n -> 1..MaxReviews] : \A i, j \in 1..n : i # j => s[i] # s[j]}
         : n \in 0..MaxReviews}

InitTree ==
  /\ \E rows \in ReviewRows, s \in DistinctIdSeqs :
       allReviews = [i \in 1..Len(s) |->
                       [id |-> s[i],
                        parent_review_id |-> rows[s[i]].parent_review_id,
                        created_at |-> rows[s[i]].created_at]]
  /\ topLevelReviews = EmptyForest
  /\ treePc = "input"

IdleTree ==
  /\ allReviews = <<>>
  /\ topLevelReviews = EmptyForest
  /\ treePc = "idle"

Organize ==
  /\ treePc = "input"
  /\ topLevelReviews' = organizeReviews(allReviews)
  /\ treePc' = "done"
  /\ UNCHANGED <<allReviews, notTreeVars>>

NextTree == Organize

(***************************************************************************)
(* Quota manager.                                                          *)
(***************************************************************************)
DefaultDailyLimit == 10000

NoItem == [none |-> TRUE]

\* getNextResetTime: the start of the local day after the current one
getNextResetTime(t) == ((t \div DayLen) + 1) * DayLen

QuotaInfoOf(count, limit, t) ==
  [dailyQuota |-> limit,
   usedQuota |-> count,
   remainingQuota |-> limit - count,
   resetTime |-> getNextResetTime(t)]

\* mutant: the saved remaining count is clamped at zero
saveQuotaInfoClamped(count, limit, t) ==
  [QuotaInfoOf(count, limit, t) EXCEPT !.remainingQuota = IF limit > count THEN limit - count ELSE 0]

\* saveQuotaInfo: the record written to localStorage
saveQuotaInfo(count, limit, t) == QuotaInfoOf(count, limit, t)

getQuotaInfo == QuotaInfoOf(requestCount, dailyLimit, now)

\* mutant: the ceiling itself still counts as available
canMakeRequestInclusive == requestCount <= dailyLimit

canMakeRequest == requestCount < dailyLimit

isQuotaExceeded == requestCount >= dailyLimit

getRemainingRequests == IF dailyLimit - requestCount > 0 THEN dailyLimit - requestCount ELSE 0

\* getUsagePercentage() >= p, for a positive ceiling: (requestCount /
\* dailyLimit) * 100 >= p in double arithmetic agrees with the exact
\* comparison for the thresholds 80 and 100
UsageAtLeast(p) == requestCount * 100 >= p * dailyLimit

\* mutant: the low mark sits at 90%
getQuotaStatusLowAt90 ==
  IF UsageAtLeast(100) THEN "Quota Exceeded"
  ELSE IF UsageAtLeast(90) THEN "Quota Low"
  ELSE "Quota OK"

getQuotaStatus ==
  IF UsageAtLeast(100) THEN "Quota Exceeded"
  ELSE IF UsageAtLeast(80) THEN "Quota Low"
  ELSE "Quota OK"

\* mutant: the throttle is never consulted
shouldSkipApiCallNever == FALSE

shouldSkipApiCall == ~canMakeRequest

\* loadQuotaInfo, as the constructor runs it on a fresh instance at time t
\* with the stored item st: the counter it leaves and the item it leaves
LoadedCount(st, t) ==
  IF st = NoItem THEN 0
  ELSE IF t > st.resetTime THEN 0 ELSE st.usedQuota

LoadedStorage(st, t) ==
  IF st = NoItem THEN NoItem
  ELSE IF t > st.resetTime THEN saveQuotaInfo(0, DefaultDailyLimit, t) ELSE st

InitQuota ==
  /\ requestCount = 0
  /\ dailyLimit = DefaultDailyLimit
  /\ storage = NoItem
  /\ now = 0
  /\ recorded = 0
  /\ shownQuotaInfo = QuotaInfoOf(0, DefaultDailyLimit, 0)

\* the instance a page load constructs when the stored record of the day
\* says that one request is left
InitQuotaNearCeiling ==
  /\ requestCount = DefaultDailyLimit - 1
  /\ dailyLimit = DefaultDailyLimit
  /\ storage = saveQuotaInfo(DefaultDailyLimit - 1, DefaultDailyLimit, 0)
  /\ now = 0
  /\ recorded = -1
  /\ shownQuotaInfo = QuotaInfoOf(DefaultDailyLimit - 1, DefaultDailyLimit, 0)

\* recordRequest
RecordRequest ==
  /\ requestCount <= MaxLimit
  /\ requestCount' = requestCount + 1
  /\ storage' = saveQuotaInfo(requestCount + 1, dailyLimit, now)
  /\ recorded' = IF recorded >= 0 THEN recorded + 1 ELSE recorded
  /\ UNCHANGED <<dailyLimit, now, shownQuotaInfo, notQuotaVars>>

\* setDailyLimit(limit)
SetDailyLimit ==
  \E limit \in 1..MaxLimit :
    /\ dailyLimit' = limit
    /\ storage' = saveQuotaInfo(requestCount, limit, now)
    /\ UNCHANGED <<requestCount, now, recorded, shownQuotaInfo, notQuotaVars>>

\* handleSetQuotaUsage: setRequestCount(count), then the page shows getQuotaInfo
SetRequestCount ==
  \E count \in 0..MaxLimit :
    /\ requestCount' = count
    /\ storage' = saveQuotaInfo(count, dailyLimit, now)
    /\ recorded' = IF count = 0 THEN 0 ELSE -1
    /\ shownQuotaInfo' = QuotaInfoOf(count, dailyLimit, now)
    /\ UNCHANGED <<dailyLimit, now, notQuotaVars>>

\* handleSimulateQuotaExceeded: simulateQuotaExceeded, then the page shows getQuotaInfo
SimulateQuotaExceeded ==
  /\ requestCount' = dailyLimit
  /\ storage' = saveQuotaInfo(dailyLimit, dailyLimit, now)
  /\ recorded' = -1
  /\ shownQuotaInfo' = QuotaInfoOf(dailyLimit, dailyLimit, now)
  /\ UNCHANGED <<dailyLimit, now, notQuotaVars>>

\* handleResetQuota: localStorage.removeItem, then the page shows getQuotaInfo
ResetQuota ==
  /\ storage' = NoItem
  /\ shownQuotaInfo' = getQuotaInfo
  /\ UNCHANGED <<requestCount, dailyLimit, now, recorded, notQuotaVars>>

\* the clock advances; the running instance is not involved
Tick ==
  /\ now < MaxNow
  /\ now' = now + 1
  /\ UNCHANGED <<requestCount, dailyLimit, storage, recorded, shownQuotaInfo, notQuotaVars>>

\* the page is loaded again: a new QuotaManager is constructed
\* (requestCount = 0, dailyLimit = 10000, loadQuotaInfo)
Reload ==
  /\ requestCount' = LoadedCount(storage, now)
  /\ dailyLimit' = DefaultDailyLimit
  /\ storage' = LoadedStorage(storage, now)
  /\ recorded' = IF LoadedCount(storage, now) = 0 THEN 0 ELSE -1
  /\ shownQuotaInfo' = QuotaInfoOf(LoadedCount(storage, now), DefaultDailyLimit, now)
  /\ UNCHANGED <<now, notQuotaVars>>

NextQuota ==
  \/ RecordRequest
  \/ SetDailyLimit
  \/ SetRequestCount
  \/ SimulateQuotaExceeded
  \/ ResetQuota
  \/ Tick
  \/ Reload

(***************************************************************************)
(* Race page: the review handlers over the reviews table.  A row is        *)
(* [id, user_id, parent_review_id, rating]; created_at is the id.          *)
(***************************************************************************)
\* the users that sign in and open the race page
Users == {1, 2}

MaxRating == 5

\* the stars clicked in the form
StarsClicked == {1, MaxRating}
maxDepth == 10

\* rating NULL of a row; 0 or null of the form
NullRating == 0

NoReview == [id |-> 0]

\* reviews_rating_check
RatingCheck(rating) == rating = NullRating \/ (rating >= 1 /\ rating <= MaxRating)

\* fetchReviews' query: the rows of the race, newest first
RECURSIVE NewestFirst(_)
NewestFirst(rows) ==
  IF rows = {} THEN <<>>
  ELSE LET newest == CHOOSE r \in rows : \A q \in rows : q.id <= r.id
       IN  <<newest>> \o NewestFirst(rows \ {newest})

\* reviewsData.find(review => review.user_id === user.id)
FindUserReview(list, u) ==
  LET own == SelectSeq(list, LAMBDA r : r.user_id = u)
  IN  IF own = <<>> THEN NoReview ELSE own[1]

\* the list organizeReviews is called with when the page renders
AsReviewList(list) ==
  [i \in 1..Len(list) |->
     [id |-> list[i].id,
      parent_review_id |-> list[i].parent_review_id,
      created_at |-> list[i].id]]

\* depth prop of the card of each rendered review
RECURSIVE DepthsFrom(_, _, _)
DepthsFrom(f, ids, depth) ==
  IF ids = <<>> \/ depth > maxDepth + 1 THEN {}
  ELSE UNION {{<<ids[i], depth>>} \cup DepthsFrom(f, f.replies[ids[i]], depth + 1)
              : i \in 1..Len(ids)}

RenderedCards(list) ==
  LET f == organizeReviews(AsReviewList(list))
  IN  DepthsFrom(f, f.top, 0)

RowOf(list, id) == CHOOSE r \in {list[i] : i \in 1..Len(list)} : r.id = id

\* the rows below a row in the table
RECURSIVE RepliesBelow(_, _, _)
RepliesBelow(rows, ids, fuel) ==
  IF fuel = 0 THEN {}
  ELSE LET kids == {r.id : r \in {q \in rows : q.parent_review_id \in ids}}
       IN  IF kids = {} THEN {} ELSE kids \cup RepliesBelow(rows, kids, fuel - 1)

\* the table after DELETE ... WHERE id = rid issued by user u; the replies
\* of the deleted row go with it (cascade) or stay behind
DbDelete(rows, rid, u, cascade) ==
  IF \E r \in rows : r.id = rid /\ r.user_id = u
  THEN {r \in rows :
          /\ r.id # rid
          /\ ~(cascade /\ r.id \in RepliesBelow(rows, {rid}, Cardinality(rows)))}
  ELSE rows

\* the table after UPDATE ... SET rating, user_id WHERE id = rid by user u
DbUpdate(rows, rid, u, rating) ==
  IF RatingCheck(rating)
  THEN {IF r.id = rid /\ r.user_id = u THEN [r EXCEPT !.rating = rating] ELSE r : r \in rows}
  ELSE rows

\* the state fetchReviews leaves when its query answers:
\* <<reviews, userReview, newRating>>
FetchReviews(u, rows, oldUserReview, oldRating) ==
  LET list == NewestFirst(rows)
      found == FindUserReview(list, u)
  IN  IF found # NoReview
      THEN <<list, found, found.rating>>
      ELSE <<list, oldUserReview, oldRating>>

\* data.reduce((sum, review) => sum + review.rating, 0): a null rating adds 0
RECURSIVE SumOfRatings(_)
SumOfRatings(list) ==
  IF list = <<>> THEN 0 ELSE list[1].rating + SumOfRatings(Tail(list))

\* an average kept as the quotient the code computes: num / den
Quotient(num, den) == [num |-> num, den |-> den]

\* RaceCard.fetchRaceStats: averageRating over the rows of the race
fetchRaceStats(list) ==
  LET reviewCount == Len(list)
  IN  IF reviewCount > 0 THEN Quotient(SumOfRatings(list), reviewCount) ELSE Quotient(0, 1)

\* RacePage.calculateAverageRating
calculateAverageRating(list) ==
  LET ratedReviews == SelectSeq(list, LAMBDA review : review.rating # NullRating /\ review.rating > 0)
  IN  IF Len(list) = 0 \/ Len(ratedReviews) = 0 THEN Quotient(0, 1)
      ELSE Quotient(SumOfRatings(ratedReviews), Len(ratedReviews))

InitPage ==
  /\ dbReviews = {}
  /\ nextId = 1
  /\ user \in Users
  /\ reviews = <<>>
  /\ userReview = NoReview
  /\ editingReview = NoReview
  /\ newRating = 0

\* the table after a user posted a review and then a chain of replies, each
\* to the reply before it, down to depth maxDepth - 2 (ids below zero: rows
\* older than every row the model inserts)
ReplyChain(u) ==
  {[id |-> 0 - k, user_id |-> u,
    parent_review_id |-> IF k = maxDepth - 1 THEN NoParent ELSE 0 - (k + 1),
    rating |-> IF k = maxDepth - 1 THEN MaxRating ELSE NullRating] : k \in 1..(maxDepth - 1)}

\* the race page opened on a race that holds such a chain
InitDeepPage ==
  /\ \E author \in Users : dbReviews = ReplyChain(author)
  /\ nextId = 1
  /\ user \in Users
  /\ LET got == FetchReviews(user, dbReviews, NoReview, 0)
     IN  /\ reviews = got[1]
         /\ userReview = got[2]
         /\ newRating = got[3]
  /\ editingReview = NoReview

IdlePage ==
  /\ dbReviews = {}
  /\ nextId = 0
  /\ user = 0
  /\ reviews = <<>>
  /\ userReview = NoReview
  /\ editingReview = NoReview
  /\ newRating = 0

\* a user opens the race page: fresh component state, then fetchReviews
MountPage ==
  \E u \in Users :
    LET got == FetchReviews(u, dbReviews, NoReview, 0)
    IN  /\ user' = u
        /\ reviews' = got[1]
        /\ userReview' = got[2]
        /\ newRating' = got[3]
        /\ editingReview' = NoReview
        /\ UNCHANGED <<dbReviews, nextId, notPageVars>>

\* a star of the form's StarRating is clicked
SetNewRating ==
  \E star \in StarsClicked :
    /\ newRating' = star
    /\ UNCHANGED <<dbReviews, nextId, user, reviews, userReview, editingReview, notPageVars>>

\* handleSubmitReview; a failed insert or update leaves the state as it was
SubmitReview ==
  /\ newRating >= 1
  /\ LET isUpdate == userReview # NoReview \/ editingReview # NoReview
           target == IF editingReview # NoReview THEN editingReview ELSE userReview
           inserted == [id |-> nextId, user_id |-> user,
                        parent_review_id |-> NoParent, rating |-> newRating]
           rows == IF isUpdate THEN DbUpdate(dbReviews, target.id, user, newRating)
                   ELSE dbReviews \cup {inserted}
           resetRating == IF userReview = NoReview THEN 0 ELSE newRating
           got == FetchReviews(user, rows, userReview, resetRating)
       IN  /\ isUpdate \/ (nextId <= MaxRows /\ RatingCheck(inserted.rating))
           /\ dbReviews' = rows
           /\ nextId' = IF isUpdate THEN nextId ELSE nextId + 1
           /\ editingReview' = NoReview
           /\ reviews' = got[1]
           /\ userReview' = got[2]
           /\ newRating' = got[3]
           /\ UNCHANGED <<user, notPageVars>>

\* handleDeleteReview, from the delete button of a rendered card of the user
DeleteReview ==
  \E card \in RenderedCards(reviews), cascade \in BOOLEAN :
    LET rid == card[1]
        rows == DbDelete(dbReviews, rid, user, cascade)
        wasUserReview == userReview # NoReview /\ userReview.id = rid
        ur == IF wasUserReview THEN NoReview ELSE userReview
        nr == IF wasUserReview THEN 0 ELSE newRating
        got == FetchReviews(user, rows, ur, nr)
    IN  /\ RowOf(reviews, rid).user_id = user
        /\ dbReviews' = rows
        /\ reviews' = got[1]
        /\ userReview' = got[2]
        /\ newRating' = got[3]
        /\ UNCHANGED <<nextId, user, editingReview, notPageVars>>

\* handleEditReview, from the edit button of a rendered card of the user
EditReview ==
  \E card \in RenderedCards(reviews) :
    LET review == RowOf(reviews, card[1])
    IN  /\ review.user_id = user
        /\ editingReview' = review
        /\ newRating' = review.rating
        /\ UNCHANGED <<dbReviews, nextId, user, reviews, userReview, notPageVars>>

\* the form's Cancel button, shown while editingReview is set
CancelEdit ==
  /\ editingReview # NoReview
  /\ editingReview' = NoReview
  /\ newRating' = IF userReview # NoReview THEN userReview.rating ELSE 0
  /\ UNCHANGED <<dbReviews, nextId, user, reviews, userReview, notPageVars>>

\* mutant: the reply form is offered down to depth maxDepth
ReplyToReviewAtMaxDepth ==
  \E card \in RenderedCards(reviews) :
    LET inserted == [id |-> nextId, user_id |-> user,
                     parent_review_id |-> card[1], rating |-> NullRating]
        rows == dbReviews \cup {inserted}
        got == FetchReviews(user, rows, userReview, newRating)
    IN  /\ card[2] <= maxDepth
        /\ nextId <= MaxRows
        /\ \E r \in dbReviews : r.id = card[1]
        /\ RatingCheck(inserted.rating)
        /\ dbReviews' = rows
        /\ nextId' = nextId + 1
        /\ reviews' = got[1]
        /\ userReview' = got[2]
        /\ newRating' = got[3]
        /\ UNCHANGED <<user, editingReview, notPageVars>>

\* handleReplyToReview, from the reply form of a rendered card below maxDepth;
\* the insert is refused when the parent row is gone
ReplyToReview ==
  \E card \in RenderedCards(reviews) :
    LET inserted == [id |-> nextId, user_id |-> user,
                     parent_review_id |-> card[1], rating |-> NullRating]
        rows == dbReviews \cup {inserted}
        got == FetchReviews(user, rows, userReview, newRating)
    IN  /\ card[2] < maxDepth
        /\ nextId <= MaxRows
        /\ \E r \in dbReviews : r.id = card[1]
        /\ RatingCheck(inserted.rating)
        /\ dbReviews' = rows
        /\ nextId' = nextId + 1
        /\ reviews' = got[1]
        /\ userReview' = got[2]
        /\ newRating' = got[3]
        /\ UNCHANGED <<user, editingReview, notPageVars>>

NextPage ==
  \/ MountPage
  \/ SetNewRating
  \/ SubmitReview
  \/ DeleteReview
  \/ EditReview
  \/ CancelEdit
  \/ ReplyToReview

(***************************************************************************)
(* Race card and thumbnail service.                                        *)
(***************************************************************************)
Cards == {1, 2}

FORMULA_1_CHANNEL_ID == "UCB_qr77-2MVdNm0jKKG-h6g"

OtherChannelId == "UC-another-channel"

\* snippet.channelTitle of the videos of a channel
ChannelTitleOf(channelId) ==
  IF channelId = FORMULA_1_CHANNEL_ID THEN "FORMULA 1" ELSE "Race Fan TV"

\* channelTitle.toLowerCase().includes('formula 1')
IncludesFormula1(channelTitle) == channelTitle = "FORMULA 1"

\* race dates, against the clock: on it (the race counts as run) and after it
RaceDates == {0, 1}

\* mutant: every race counts as run
hasHappenedAlways(race) == TRUE

\* RaceCard: hasHappened = raceDate <= now
hasHappened(race) == race.date <= now

\* the races shown on the dashboard, by grand_prix_name and year of the date
RaceKeys ==
  {[name |-> "Monaco Grand Prix", year |-> 2024],
   [name |-> "Spanish Grand Prix", year |-> 2024]}

\* each card shows a race of its own
RaceShownBy(c) ==
  IF c = 1 THEN [name |-> "Monaco Grand Prix", year |-> 2024]
  ELSE [name |-> "Spanish Grand Prix", year |-> 2024]

\* raceName.toLowerCase().replace(/ grand prix/i, '').trim()
NormalizedRaceName(raceName) ==
  IF raceName = "Monaco Grand Prix" THEN "monaco" ELSE "spanish"

\* a video title "<kind> | <year> <gp> Grand Prix", kept as its three parts
TitleIncludesHighlight(title) == title.kind \in {"Race Highlights", "FP1 Highlights"}

TitleIncludesRace(title, raceName) == title.gp = NormalizedRaceName(raceName)

\* the videos the search can answer with
VideoPool ==
  {[videoId |-> "v-monaco-race", channelId |-> FORMULA_1_CHANNEL_ID,
    title |-> [kind |-> "Race Highlights", gp |-> "monaco", year |-> 2024]],
   [videoId |-> "v-monaco-fp1", channelId |-> FORMULA_1_CHANNEL_ID,
    title |-> [kind |-> "FP1 Highlights", gp |-> "monaco", year |-> 2024]],
   [videoId |-> "v-monaco-fan", channelId |-> OtherChannelId,
    title |-> [kind |-> "Race Highlights", gp |-> "monaco", year |-> 2024]],
   [videoId |-> "v-monaco-full", channelId |-> FORMULA_1_CHANNEL_ID,
    title |-> [kind |-> "Full Race", gp |-> "monaco", year |-> 2024]],
   [videoId |-> "v-spanish-race", channelId |-> FORMULA_1_CHANNEL_ID,
    title |-> [kind |-> "Race Highlights", gp |-> "spanish", year |-> 2024]]}

SearchAnswers == UNION {[1..n -> VideoPool] : n \in 0..MaxItems}

NoVideo == [videoId |-> ""]

thumbnailQualities ==
  <<"maxresdefault.jpg", "hqdefault.jpg", "mqdefault.jpg", "sddefault.jpg", "default.jpg">>

\* https://img.youtube.com/vi/{videoId}/{quality}
YouTubeUrl(videoId, quality) == [videoId |-> videoId, file |-> quality]

NoUrl == [static |-> ""]

\* the image transformF1RaceToDbFormat stores for an imported race
ImportedImage == [static |-> "pexels-photo-358220.jpeg"]

\* getCircuitFallbackThumbnail
FallbackImage == [static |-> "512px-F1.svg.png"]

\* the thumbnailUrl of the 'No official F1 highlight found' result
NoMatchImage == [static |-> "F1.svg"]

\* what a HEAD request can do: answer ok, answer with another status, or
\* throw (network error, timeout)
HeadOutcomes == {"ok", "notOk", "throws"}

\* the same where the caller only asks whether the answer was ok
ProbeOutcomes == {"ok", "failed"}

\* what the search request can do: answer with items, answer 403 with a quota
\* message, fail with a message that mentions the quota or 403, fail otherwise
SearchOutcomes == {"ok", "quota403", "quotaLike", "error"}

ErrNoKey == "YouTube API key not configured"
ErrQuotaSkipped == "YouTube API quota exceeded. Please try again later."
ErrQuotaApi == "YouTube API quota exceeded. Please try again later or contact administrator."
ErrNoVideos == "No videos found"
ErrNoMatch == "No official F1 highlight found"
ErrApi == "YouTube API error"

\* error.includes('quota')
ErrorIncludesQuota(error) == error \in {ErrQuotaSkipped, ErrQuotaApi}

NoResult == [none |-> TRUE]

Failure(error, thumbnailUrl) ==
  [success |-> FALSE, thumbnailUrl |-> thumbnailUrl, videoId |-> "",
   channelTitle |-> "", videoTitle |-> NoVideo, cached |-> FALSE,
   fallback |-> FALSE, error |-> error]

\* mutant: a cached row is handed back as a fresh result
FromRowAsFresh(row, fallback) ==
  [success |-> TRUE, thumbnailUrl |-> row.thumbnail_url, videoId |-> row.video_id,
   channelTitle |-> row.channel_title, videoTitle |-> row.video_title,
   cached |-> FALSE, fallback |-> fallback, error |-> ""]

\* the result built from a row of thumbnail_cache
FromRow(row, fallback) ==
  [success |-> TRUE, thumbnailUrl |-> row.thumbnail_url, videoId |-> row.video_id,
   channelTitle |-> row.channel_title, videoTitle |-> row.video_title,
   cached |-> TRUE, fallback |-> fallback, error |-> ""]

\* the result of a search that selected a video
FromVideo(video, thumbnailUrl) ==
  [success |-> TRUE, thumbnailUrl |-> thumbnailUrl, videoId |-> video.videoId,
   channelTitle |-> ChannelTitleOf(video.channelId), videoTitle |-> video.title,
   cached |-> FALSE, fallback |-> FALSE, error |-> ""]

NoRow == [video_id |-> ""]

RowsOf(rows, raceName, year) ==
  {row \in rows : row.race_name = raceName /\ row.year = year}

\* the columns of public.thumbnail_cache
thumbnail_cache_columns ==
  {"id", "race_name", "video_id", "thumbnail_url", "channel_title", "video_title",
   "year", "cached_at", "updated_at"}

\* the columns of the row cacheThumbnail sends
UpsertColumns ==
  {"race_name", "video_id", "thumbnail_url", "channel_title", "video_title",
   "year", "created_at"}

\* the database refuses a row with a column the table does not have
UpsertAccepted == UpsertColumns \subseteq thumbnail_cache_columns

\* upsert with onConflict 'race_name,year'
Upserted(rows, row) ==
  (rows \ RowsOf(rows, row.race_name, row.year)) \cup {row}

\* rows the race-thumbnails function has written, at most one per race and year
SeedRows ==
  {[race_name |-> "Monaco Grand Prix", year |-> 2024, video_id |-> "v-monaco-race",
    thumbnail_url |-> YouTubeUrl("v-monaco-race", "maxresdefault.jpg"),
    channel_title |-> "FORMULA 1",
    video_title |-> [kind |-> "Race Highlights", gp |-> "monaco", year |-> 2024]],
   [race_name |-> "Spanish Grand Prix", year |-> 2024, video_id |-> "v-spanish-race",
    thumbnail_url |-> YouTubeUrl("v-spanish-race", "hqdefault.jpg"),
    channel_title |-> "FORMULA 1",
    video_title |-> [kind |-> "Race Highlights", gp |-> "spanish", year |-> 2024]]}

\* the loop over responseData.items: the first item of the official channel
\* whose title includes 'highlight' and the normalized race name
SelectedVideo(items, raceName) ==
  LET matching == SelectSeq(items, LAMBDA item :
                    /\ item.channelId = FORMULA_1_CHANNEL_ID
                    /\ TitleIncludesHighlight(item.title)
                    /\ TitleIncludesRace(item.title, raceName))
  IN  IF matching = <<>> THEN NoVideo ELSE matching[1]

\* mutant: a failed resolution leaves the card as it was
FinishedWithoutFallback(card, result) ==
  IF result.success /\ result.thumbnailUrl # NoUrl
  THEN [card EXCEPT !.pc = "done", !.result = result,
                    !.thumbnailUrl = result.thumbnailUrl,
                    !.isOfficialThumbnail = IncludesFormula1(result.channelTitle),
                    !.thumbnailLoading = FALSE]
  ELSE [card EXCEPT !.pc = "done", !.result = result]

\* the end of RaceCard.loadThumbnail, given the result of getRaceHighlightThumbnail
Finished(card, result) ==
  IF result.success /\ result.thumbnailUrl # NoUrl
  THEN [card EXCEPT !.pc = "done", !.result = result,
                    !.thumbnailUrl = result.thumbnailUrl,
                    !.isOfficialThumbnail = IncludesFormula1(result.channelTitle),
                    !.thumbnailLoading = FALSE]
  ELSE [card EXCEPT !.pc = "done", !.result = result,
                    !.thumbnailUrl = FallbackImage,
                    !.isOfficialThumbnail = FALSE,
                    !.thumbnailLoading = FALSE]

\* a request or a call to the quota manager, with how it ended
Called(card, call, outcome) == [card EXCEPT !.calls = Append(@, <<call, outcome>>)]

\* getRaceHighlightThumbnail once getCachedThumbnail returned null: the
\* entry of searchYouTubeHighlights up to its first request
AfterCacheMiss(card) ==
  IF ~apiKey THEN Finished(card, Failure(ErrNoKey, NoUrl))
  ELSE IF shouldSkipApiCall
       THEN [Called(card, "shouldSkipApiCall", "skip") EXCEPT
               !.pc = "similar", !.result = Failure(ErrQuotaSkipped, NoUrl)]
       ELSE [Called(card, "shouldSkipApiCall", "go") EXCEPT !.pc = "gemini"]

\* what the card renders in its image area
Shown(card) ==
  IF ~hasHappened(card.race) THEN "placeholder"
  ELSE IF card.thumbnailLoading THEN "spinner" ELSE "thumbnail"

\* the "Official" badge
OfficialBadge(card) ==
  card.isOfficialThumbnail /\ ~card.thumbnailLoading /\ hasHappened(card.race)

InitThumb ==
  /\ apiKey \in BOOLEAN
  /\ cache \in {{}, SeedRows}
  /\ \E url \in {NoUrl, ImportedImage} : dbRaces = [key \in RaceKeys |-> url]
  /\ cards \in [Cards ->
       [race : [name : {k.name : k \in RaceKeys}, year : {k.year : k \in RaceKeys},
                date : RaceDates, thumbnail_url : {NoUrl}],
        pc : {"unmounted"}, thumbnailUrl : {NoUrl}, isOfficialThumbnail : {FALSE},
        thumbnailLoading : {TRUE}, row : {NoRow}, video : {NoVideo}, quality : {0},
        result : {NoResult}, calls : {<<>>}]]
  /\ \A c \in Cards : [name |-> cards[c].race.name, year |-> cards[c].race.year] = RaceShownBy(c)

IdleThumb ==
  /\ apiKey = FALSE
  /\ cache = {}
  /\ dbRaces = <<>>
  /\ cards = <<>>

\* the card is mounted with the race row as the dashboard loaded it: the
\* first render (a future race shows the placeholder and its image), then the
\* effect: fetchRaceStats is issued, and loadThumbnail is entered for a past race
Mount(c) ==
  /\ cards[c].pc = "unmounted"
  /\ LET key == [name |-> cards[c].race.name, year |-> cards[c].race.year]
         race == [cards[c].race EXCEPT !.thumbnail_url = dbRaces[key]]
         rendered == IF hasHappened(race) THEN [cards[c] EXCEPT !.race = race]
                     ELSE Called([cards[c] EXCEPT !.race = race], "placeholderImage", "")
         mounted == Called(rendered, "stats", "")
     IN  cards' = [cards EXCEPT ![c] =
           IF ~hasHappened(race)
           THEN [mounted EXCEPT !.pc = "done", !.thumbnailLoading = FALSE]
           ELSE IF race.thumbnail_url # NoUrl
                THEN [mounted EXCEPT !.pc = "storedCheck"]
                ELSE [mounted EXCEPT !.pc = "cacheLookup"]]
  /\ UNCHANGED <<cache, dbRaces, apiKey, quotaVars, notThumbVars>>

\* loadThumbnail: the HEAD request for race.thumbnail_url
StoredCheck(c) ==
  /\ cards[c].pc = "storedCheck"
  /\ \E head \in ProbeOutcomes :
       LET card == Called(cards[c], "storedHead", head)
       IN  cards' = [cards EXCEPT ![c] =
             IF head = "ok"
             THEN [card EXCEPT !.pc = "done",
                               !.thumbnailUrl = card.race.thumbnail_url,
                               !.isOfficialThumbnail = TRUE,
                               !.thumbnailLoading = FALSE]
             ELSE [card EXCEPT !.pc = "cacheLookup"]]
  /\ UNCHANGED <<cache, dbRaces, apiKey, quotaVars, notThumbVars>>

\* getCachedThumbnail: the select on thumbnail_cache
CacheLookup(c) ==
  /\ cards[c].pc = "cacheLookup"
  /\ \E dbOk \in BOOLEAN :
       LET card == Called(cards[c], "cacheSelect", IF dbOk THEN "ok" ELSE "failed")
           rows == RowsOf(cache, card.race.name, card.race.year)
       IN  cards' = [cards EXCEPT ![c] =
             IF dbOk /\ Cardinality(rows) = 1
             THEN [card EXCEPT !.pc = "validate", !.row = CHOOSE row \in rows : TRUE]
             ELSE AfterCacheMiss(card)]
  /\ UNCHANGED <<cache, dbRaces, apiKey, quotaVars, notThumbVars>>

\* mutant: a thrown validation request also removes the entry
ValidateRemovingOnThrow(c) ==
  /\ cards[c].pc = "validate"
  /\ \E head \in HeadOutcomes :
       LET card == Called(cards[c], "cacheHead", head)
       IN  cards' = [cards EXCEPT ![c] =
             CASE head = "ok" -> Finished(card, FromRow(card.row, FALSE))
               [] OTHER -> [card EXCEPT !.pc = "cacheDelete"]]
  /\ UNCHANGED <<cache, dbRaces, apiKey, quotaVars, notThumbVars>>

\* getCachedThumbnail: the HEAD request for the cached thumbnail_url
Validate(c) ==
  /\ cards[c].pc = "validate"
  /\ \E head \in HeadOutcomes :
       LET card == Called(cards[c], "cacheHead", head)
       IN  cards' = [cards EXCEPT ![c] =
             CASE head = "ok" -> Finished(card, FromRow(card.row, FALSE))
               [] head = "notOk" -> [card EXCEPT !.pc = "cacheDelete"]
               [] OTHER -> AfterCacheMiss(card)]
  /\ UNCHANGED <<cache, dbRaces, apiKey, quotaVars, notThumbVars>>

\* getCachedThumbnail: the delete of the invalid entry; its failure is ignored
CacheDelete(c) ==
  /\ cards[c].pc = "cacheDelete"
  /\ \E dbOk \in BOOLEAN :
       LET card == Called(cards[c], "cacheDelete", IF dbOk THEN "ok" ELSE "failed")
       IN  /\ cache' = IF dbOk THEN cache \ RowsOf(cache, card.race.name, card.race.year)
                       ELSE cache
           /\ cards' = [cards EXCEPT ![c] = AfterCacheMiss(card)]
  /\ UNCHANGED <<dbRaces, apiKey, quotaVars, notThumbVars>>

\* generateSearchQuery: the Gemini request; any failure gives the basic query
Gemini(c) ==
  /\ cards[c].pc = "gemini"
  /\ \E answered \in BOOLEAN :
       cards' = [cards EXCEPT ![c] =
         [Called(cards[c], "gemini", IF answered THEN "ok" ELSE "failed") EXCEPT
            !.pc = "search"]]
  /\ UNCHANGED <<cache, dbRaces, apiKey, quotaVars, notThumbVars>>

\* searchYouTubeHighlights: the search request and what follows its answer
Search(c) ==
  /\ cards[c].pc = "search"
  /\ \E outcome \in SearchOutcomes, items \in SearchAnswers :
       LET asked == Called(cards[c], "search", outcome)
           card == CASE outcome = "ok" -> Called(asked, "recordRequest", "")
                     [] outcome = "quota403" -> Called(asked, "simulateQuotaExceeded", "")
                     [] OTHER -> asked
           video == SelectedVideo(items, card.race.name)
       IN  /\ outcome # "ok" => items = <<>>
           /\ cards' = [cards EXCEPT ![c] =
                CASE outcome \in {"quota403", "quotaLike"} ->
                       [card EXCEPT !.pc = "similar", !.result = Failure(ErrQuotaApi, NoUrl)]
                  [] outcome = "error" ->
                       Finished(card, Failure(ErrApi, NoUrl))
                  [] outcome = "ok" /\ items = <<>> ->
                       Finished(card, Failure(ErrNoVideos, NoUrl))
                  [] outcome = "ok" /\ items # <<>> /\ video = NoVideo ->
                       Finished(card, Failure(ErrNoMatch, NoMatchImage))
                  [] OTHER ->
                       [card EXCEPT !.pc = "probe", !.video = video, !.quality = 1]]
           /\ requestCount' = CASE outcome = "ok" -> requestCount + 1
                                [] outcome = "quota403" -> dailyLimit
                                [] OTHER -> requestCount
           /\ storage' = CASE outcome = "ok" -> saveQuotaInfo(requestCount + 1, dailyLimit, now)
                           [] outcome = "quota403" -> saveQuotaInfo(dailyLimit, dailyLimit, now)
                           [] OTHER -> storage
           /\ recorded' = CASE outcome = "ok" -> IF recorded >= 0 THEN recorded + 1 ELSE recorded
                            [] outcome = "quota403" -> -1
                            [] OTHER -> recorded
  /\ UNCHANGED <<cache, dbRaces, apiKey, dailyLimit, notThumbVars>>

\* mutant: with no probe answered, the last quality of the list is returned
ProbeFallingBackToLast(c) ==
  /\ cards[c].pc = "probe"
  /\ \E head \in ProbeOutcomes :
       LET card == Called(cards[c], thumbnailQualities[cards[c].quality], head)
           testUrl == YouTubeUrl(card.video.videoId, thumbnailQualities[card.quality])
       IN  cards' = [cards EXCEPT ![c] =
             IF head = "ok"
             THEN [card EXCEPT !.pc = "cacheUpsert", !.result = FromVideo(card.video, testUrl)]
             ELSE IF card.quality < Len(thumbnailQualities)
                  THEN [card EXCEPT !.quality = @ + 1]
                  ELSE [card EXCEPT !.pc = "cacheUpsert",
                          !.result = FromVideo(card.video,
                                               YouTubeUrl(card.video.videoId, "default.jpg"))]]
  /\ UNCHANGED <<cache, dbRaces, apiKey, quotaVars, notThumbVars>>

\* searchYouTubeHighlights: the HEAD request for one thumbnail quality
Probe(c) ==
  /\ cards[c].pc = "probe"
  /\ \E head \in ProbeOutcomes :
       LET card == Called(cards[c], thumbnailQualities[cards[c].quality], head)
           testUrl == YouTubeUrl(card.video.videoId, thumbnailQualities[card.quality])
       IN  cards' = [cards EXCEPT ![c] =
             IF head = "ok"
             THEN [card EXCEPT !.pc = "cacheUpsert", !.result = FromVideo(card.video, testUrl)]
             ELSE IF card.quality < Len(thumbnailQualities)
                  THEN [card EXCEPT !.quality = @ + 1]
                  ELSE [card EXCEPT !.pc = "cacheUpsert",
                          !.result = FromVideo(card.video,
                                               YouTubeUrl(card.video.videoId, "hqdefault.jpg"))]]
  /\ UNCHANGED <<cache, dbRaces, apiKey, quotaVars, notThumbVars>>

\* cacheThumbnail: the upsert; its failure is logged and ignored
CacheUpsert(c) ==
  /\ cards[c].pc = "cacheUpsert"
  /\ \E dbOk \in {UpsertAccepted} :
       LET card == Called(cards[c], "cacheUpsert", IF dbOk THEN "ok" ELSE "failed")
           row == [race_name |-> card.race.name, year |-> card.race.year,
                   video_id |-> card.result.videoId,
                   thumbnail_url |-> card.result.thumbnailUrl,
                   channel_title |-> card.result.channelTitle,
                   video_title |-> card.result.videoTitle]
       IN  /\ cache' = IF dbOk THEN Upserted(cache, row) ELSE cache
           /\ cards' = [cards EXCEPT ![c] = [card EXCEPT !.pc = "raceUpdate"]]
  /\ UNCHANGED <<dbRaces, apiKey, quotaVars, notThumbVars>>

\* mutant: a refused write-back is handed to the card as a failure
RaceUpdateSurfacingFailure(c) ==
  /\ cards[c].pc = "raceUpdate"
  /\ \E dbOk \in BOOLEAN :
       LET card == Called(cards[c], "raceUpdate", IF dbOk THEN "ok" ELSE "failed")
           key == [name |-> card.race.name, year |-> card.race.year]
       IN  /\ dbRaces' = IF dbOk THEN [dbRaces EXCEPT ![key] = card.result.thumbnailUrl]
                         ELSE dbRaces
           /\ cards' = [cards EXCEPT ![c] =
                IF dbOk THEN Finished(card, card.result)
                ELSE Finished(card, Failure(ErrApi, NoUrl))]
  /\ UNCHANGED <<cache, apiKey, quotaVars, notThumbVars>>

\* updateRaceWithVideoData, then the result goes back to the card
RaceUpdate(c) ==
  /\ cards[c].pc = "raceUpdate"
  /\ \E dbOk \in BOOLEAN :
       LET card == Called(cards[c], "raceUpdate", IF dbOk THEN "ok" ELSE "failed")
           key == [name |-> card.race.name, year |-> card.race.year]
       IN  /\ dbRaces' = IF dbOk THEN [dbRaces EXCEPT ![key] = card.result.thumbnailUrl]
                         ELSE dbRaces
           /\ cards' = [cards EXCEPT ![c] = Finished(card, card.result)]
  /\ UNCHANGED <<cache, apiKey, quotaVars, notThumbVars>>

\* mutant: with the quota used up the resolver gives up without a look at
\* the other rows of the year
SimilarGivingUp(c) ==
  /\ cards[c].pc = "similar"
  /\ \E dbOk \in BOOLEAN :
       LET card == Called(cards[c], "similarSelect", IF dbOk THEN "ok" ELSE "failed")
       IN  cards' = [cards EXCEPT ![c] = Finished(card, card.result)]
  /\ UNCHANGED <<cache, dbRaces, apiKey, quotaVars, notThumbVars>>

\* findSimilarCachedThumbnail after a quota failure: any row of the year
Similar(c) ==
  /\ cards[c].pc = "similar"
  /\ \E dbOk \in BOOLEAN :
       LET card == Called(cards[c], "similarSelect", IF dbOk THEN "ok" ELSE "failed")
           rows == {r \in cache : r.year = card.race.year}
       IN  \E row \in IF dbOk /\ rows # {} THEN rows ELSE {NoRow} :
             cards' = [cards EXCEPT ![c] =
               IF row = NoRow THEN Finished(card, card.result)
               ELSE Finished(card, FromRow(row, TRUE))]
  /\ UNCHANGED <<cache, dbRaces, apiKey, quotaVars, notThumbVars>>

NextThumb ==
  \/ \E c \in Cards : Mount(c)
  \/ \E c \in Cards : StoredCheck(c)
  \/ \E c \in Cards : CacheLookup(c)
  \/ \E c \in Cards : Validate(c)
  \/ \E c \in Cards : CacheDelete(c)
  \/ \E c \in Cards : Gemini(c)
  \/ \E c \in Cards : Search(c)
  \/ \E c \in Cards : Probe(c)
  \/ \E c \in Cards : CacheUpsert(c)
  \/ \E c \in Cards : RaceUpdate(c)
  \/ \E c \in Cards : Similar(c)

(***************************************************************************)
(* The race-thumbnails edge function: one request is served at a time;     *)
(* edge holds the key setting, the last request and its response.          *)
(***************************************************************************)
\* a channel that is not the official one and carries 'formula 1' in its title
FanChannelId == "UC-formula-1-fans"

\* item.snippet.channelTitle of the videos of a channel
EdgeChannelTitleOf(channelId) ==
  IF channelId = FanChannelId THEN "Formula 1 Fans" ELSE ChannelTitleOf(channelId)

\* channelTitle.toLowerCase().includes('formula 1'), over the titles above
EdgeIncludesFormula1(channelTitle) == channelTitle \in {"FORMULA 1", "Formula 1 Fans"}

\* the videos the edge function's search can answer with: it does not ask for
\* one channel
EdgeVideoPool ==
  {[videoId |-> "v-monaco-race", channelId |-> FORMULA_1_CHANNEL_ID,
    title |-> [kind |-> "Race Highlights", gp |-> "monaco", year |-> 2024]],
   [videoId |-> "v-monaco-full", channelId |-> FORMULA_1_CHANNEL_ID,
    title |-> [kind |-> "Full Race", gp |-> "monaco", year |-> 2024]],
   [videoId |-> "v-monaco-fan", channelId |-> OtherChannelId,
    title |-> [kind |-> "Race Highlights", gp |-> "monaco", year |-> 2024]],
   [videoId |-> "v-monaco-fans", channelId |-> FanChannelId,
    title |-> [kind |-> "Race Highlights", gp |-> "monaco", year |-> 2024]]}

EdgeSearchAnswers == UNION {[1..n -> EdgeVideoPool] : n \in 0..MaxItems}

\* the test of the loop over data.items
EdgeAccepts(item) ==
  /\ \/ item.channelId = FORMULA_1_CHANNEL_ID
     \/ EdgeIncludesFormula1(EdgeChannelTitleOf(item.channelId))
  /\ TitleIncludesHighlight(item.title)

EdgeSelectedVideo(items) ==
  LET accepted == SelectSeq(items, EdgeAccepts)
  IN  IF accepted = <<>> THEN NoVideo ELSE accepted[1]

\* error texts, word by word
EdgeErrNoRaceName == <<"raceName", "parameter", "is", "required">>
EdgeErrNotFound == <<"Endpoint", "not", "found">>
EdgeErrNoKey == <<"YouTube", "API", "key", "not", "configured">>
EdgeErrNoOfficial == <<"No", "official", "highlights", "found", "for">>
EdgeErrApi == <<"YouTube/Gemini", "API", "error:">>
EdgeErrInternal == <<"Internal", "server", "error">>
EdgeErrClear == <<"Failed", "to", "clear", "cache">>
EdgeErrStats == <<"Failed", "to", "get", "cache", "stats">>
EdgeErrHealth == <<"YouTube", "API", "connectivity", "test", "failed">>
EdgeNoError == <<>>

\* text.includes(phrase), on whole words
IncludesPhrase(text, phrase) ==
  \E i \in 1..Len(text) :
    /\ i + Len(phrase) - 1 <= Len(text)
    /\ SubSeq(text, i, i + Len(phrase) - 1) = phrase

\* youtubeResult.error?.includes('No highlights') ? 404 : 500
StatusOfFailure(error) ==
  IF IncludesPhrase(error, <<"No", "highlights">>) THEN 404 ELSE 500

EdgeMethods == {"GET", "POST", "OPTIONS"}

EdgePaths == {"/race-thumbnails", "/health", "/cache/clear", "/cache/stats", "/unknown"}

\* the raceName parameter; "" when it is missing
EdgeRaceNames == {"", "Monaco Grand Prix"}

\* the year parameter; 0 when it is missing
EdgeYears == {0, 2024}

DefaultYear == 2025

\* the requests: the parameters are read by the thumbnail endpoint only
EdgeRequests ==
  {req \in [method : EdgeMethods, path : EdgePaths,
            raceName : EdgeRaceNames, year : EdgeYears] :
     (req.raceName # "" \/ req.year # 0) =>
       (req.method = "GET" /\ req.path = "/race-thumbnails")}

NoRequest == [method |-> ""]

\* new Response(null): no JSON body
EdgeEmptyResponse(status) ==
  [status |-> status, json |-> FALSE, success |-> FALSE, error |-> EdgeNoError,
   thumbnailUrl |-> NoUrl, videoId |-> "", cached |-> FALSE]

EdgeErrorResponse(status, error) ==
  [status |-> status, json |-> TRUE, success |-> FALSE, error |-> error,
   thumbnailUrl |-> NoUrl, videoId |-> "", cached |-> FALSE]

EdgeOkResponse ==
  [status |-> 200, json |-> TRUE, success |-> TRUE, error |-> EdgeNoError,
   thumbnailUrl |-> NoUrl, videoId |-> "", cached |-> FALSE]

EdgeThumbnailResponse(thumbnailUrl, videoId, cached) ==
  [status |-> 200, json |-> TRUE, success |-> TRUE, error |-> EdgeNoError,
   thumbnailUrl |-> thumbnailUrl, videoId |-> videoId, cached |-> cached]

\* serve: which handler a request goes to
Route(req) ==
  IF req.method = "OPTIONS" THEN "preflight"
  ELSE IF req.path = "/health" THEN "health"
  ELSE IF req.path = "/race-thumbnails" /\ req.method = "GET" THEN "thumbnail"
  ELSE IF req.path = "/cache/clear" /\ req.method = "POST" THEN "cacheClear"
  ELSE IF req.path = "/cache/stats" /\ req.method = "GET" THEN "cacheStats"
  ELSE "notFound"

Served(req, resp, video) ==
  [edge EXCEPT !.request = req, !.response = resp, !.video = video]

InitEdge ==
  /\ edge \in [youtubeApiKey : BOOLEAN, request : {NoRequest},
               response : {EdgeEmptyResponse(0)}, video : {NoVideo}]

IdleEdge ==
  edge = [youtubeApiKey |-> FALSE, request |-> NoRequest,
          response |-> EdgeEmptyResponse(0), video |-> NoVideo]

\* serve: CORS preflight
EdgePreflight ==
  \E req \in EdgeRequests :
    /\ Route(req) = "preflight"
    /\ edge' = Served(req, EdgeEmptyResponse(200), NoVideo)
    /\ UNCHANGED <<cache, notEdgeVars>>

\* serve: no endpoint matches
EdgeNotFound ==
  \E req \in EdgeRequests :
    /\ Route(req) = "notFound"
    /\ edge' = Served(req, EdgeErrorResponse(404, EdgeErrNotFound), NoVideo)
    /\ UNCHANGED <<cache, notEdgeVars>>

\* handleHealthCheck
EdgeHealth ==
  \E req \in EdgeRequests, apiOk \in BOOLEAN :
    /\ Route(req) = "health"
    /\ edge' = Served(req,
                 IF ~edge.youtubeApiKey THEN EdgeErrorResponse(503, EdgeErrNoKey)
                 ELSE IF ~apiOk THEN EdgeErrorResponse(503, EdgeErrHealth)
                 ELSE EdgeOkResponse,
                 NoVideo)
    /\ UNCHANGED <<cache, notEdgeVars>>

\* handleCacheClear
EdgeCacheClear ==
  \E req \in EdgeRequests, dbOk \in BOOLEAN :
    /\ Route(req) = "cacheClear"
    /\ cache' = IF dbOk THEN {} ELSE cache
    /\ edge' = Served(req,
                 IF dbOk THEN EdgeOkResponse ELSE EdgeErrorResponse(500, EdgeErrClear),
                 NoVideo)
    /\ UNCHANGED notEdgeVars

\* handleCacheStats
EdgeCacheStats ==
  \E req \in EdgeRequests, dbOk \in BOOLEAN :
    /\ Route(req) = "cacheStats"
    /\ edge' = Served(req,
                 IF dbOk THEN EdgeOkResponse ELSE EdgeErrorResponse(500, EdgeErrStats),
                 NoVideo)
    /\ UNCHANGED <<cache, notEdgeVars>>

\* handleThumbnailRequest, with getCachedThumbnail, searchYouTubeHighlights
\* and cacheThumbnail
EdgeThumbnail ==
  \E req \in {r \in EdgeRequests : Route(r) = "thumbnail"} :
    LET year == IF req.year = 0 THEN DefaultYear ELSE req.year
    IN  /\ UNCHANGED notEdgeVars
        /\ IF req.raceName = ""
           THEN /\ edge' = Served(req, EdgeErrorResponse(400, EdgeErrNoRaceName), NoVideo)
                /\ cache' = cache
           ELSE \E lookupOk \in BOOLEAN :
             LET rows == IF lookupOk THEN RowsOf(cache, req.raceName, year) ELSE {}
             IN  IF rows # {}
                 THEN /\ edge' = Served(req,
                            LET hit == CHOOSE r \in rows : TRUE
                            IN  EdgeThumbnailResponse(hit.thumbnail_url, hit.video_id, TRUE),
                            NoVideo)
                      /\ cache' = cache
                 ELSE IF ~edge.youtubeApiKey
                 THEN /\ edge' = Served(req,
                            EdgeErrorResponse(StatusOfFailure(EdgeErrNoKey), EdgeErrNoKey),
                            NoVideo)
                      /\ cache' = cache
                 ELSE \/ /\ edge' = Served(req,
                               EdgeErrorResponse(StatusOfFailure(EdgeErrApi), EdgeErrApi),
                               NoVideo)
                         /\ cache' = cache
                      \/ \E items \in EdgeSearchAnswers :
                           LET video == EdgeSelectedVideo(items)
                           IN  IF video = NoVideo
                               THEN /\ edge' = Served(req,
                                          EdgeErrorResponse(StatusOfFailure(EdgeErrNoOfficial),
                                                            EdgeErrNoOfficial),
                                          NoVideo)
                                    /\ cache' = cache
                               ELSE \E head \in ProbeOutcomes, upsertOk \in BOOLEAN :
                                 LET thumbnailUrl ==
                                       IF head = "ok"
                                       THEN YouTubeUrl(video.videoId, "maxresdefault.jpg")
                                       ELSE YouTubeUrl(video.videoId, "hqdefault.jpg")
                                     row == [race_name |-> req.raceName, year |-> year,
                                             video_id |-> video.videoId,
                                             thumbnail_url |-> thumbnailUrl,
                                             channel_title |->
                                               EdgeChannelTitleOf(video.channelId),
                                             video_title |-> video.title]
                                 IN  /\ edge' = Served(req,
                                           EdgeThumbnailResponse(thumbnailUrl,
                                                                 video.videoId, FALSE),
                                           video)
                                     /\ cache' = IF upsertOk THEN Upserted(cache, row)
                                                 ELSE cache

NextEdge ==
  \/ EdgePreflight
  \/ EdgeNotFound
  \/ EdgeHealth
  \/ EdgeCacheClear
  \/ EdgeCacheStats
  \/ EdgeThumbnail

\* no card is rendered; the cache may hold rows
IdleCards ==
  /\ apiKey = FALSE
  /\ dbRaces = <<>>
  /\ cards = <<>>
  /\ cache \in {{}, SeedRows}

(***************************************************************************)
(* The selection loop of searchYouTubeHighlights as a function of the      *)
(* answer of the search.                                                   *)
(***************************************************************************)
Pending == [pending |-> TRUE]

InitSelect ==
  /\ answer \in [raceName : {k.name : k \in RaceKeys}, items : SearchAnswers]
  /\ selected = Pending

IdleSelect ==
  /\ answer = [raceName |-> "", items |-> <<>>]
  /\ selected = Pending

\* the loop over responseData.items runs
Select ==
  /\ selected = Pending
  /\ selected' = SelectedVideo(answer.items, answer.raceName)
  /\ UNCHANGED <<answer, notSelectVars>>

\* the next answer arrives
NextAnswer ==
  /\ selected # Pending
  /\ answer' \in [raceName : {k.name : k \in RaceKeys}, items : SearchAnswers]
  /\ selected' = Pending
  /\ UNCHANGED notSelectVars

NextSelect ==
  \/ Select
  \/ NextAnswer

(***************************************************************************)
(* One thumbnail resolution on its own: a race card's loadThumbnail, or a   *)
(* call of getOptimizedThumbnail, which runs getRaceHighlightThumbnail and  *)
(* then verifies the URL it got.                                           *)
(***************************************************************************)
\* retry: maxAttempts
MaxAttempts == 3

\* getFallbackThumbnail
getFallbackThumbnail == [static |-> "pexels-photo-358220.jpeg?w=1280&h=720"]

NotOptimized == [pc |-> "idle", calls |-> <<>>, video |-> NoVideo, quality |-> 0, url |-> NoUrl]

IdleOptimized == optimized = NotOptimized

\* the resolution runs in slot 1; under getOptimizedThumbnail the slot holds
\* the call of getRaceHighlightThumbnail instead of a mounted card
InitResolution ==
  /\ apiKey \in BOOLEAN
  /\ cache \in {{}, SeedRows}
  /\ \E url \in {NoUrl, ImportedImage} : dbRaces = [key \in RaceKeys |-> url]
  /\ \E date \in RaceDates, entry \in {"unmounted", "cacheLookup"} :
       /\ cards = [c \in {1} |->
            [race |-> [name |-> RaceShownBy(c).name, year |-> RaceShownBy(c).year,
                       date |-> date, thumbnail_url |-> NoUrl],
             pc |-> entry, thumbnailUrl |-> NoUrl, isOfficialThumbnail |-> FALSE,
             thumbnailLoading |-> TRUE, row |-> NoRow, video |-> NoVideo, quality |-> 0,
             result |-> NoResult, calls |-> <<>>]]
       /\ optimized = IF entry = "unmounted" THEN NotOptimized
                      ELSE [NotOptimized EXCEPT !.pc = "resolving"]

\* getOptimizedThumbnail returns
Returned(call, url) == [call EXCEPT !.pc = "returned", !.url = url]

\* getOptimizedThumbnail once getRaceHighlightThumbnail returned: the HEAD
\* request for the URL, and after its failure the entry of a second
\* searchYouTubeHighlights up to its first request
OptimizedVerify ==
  /\ optimized.pc = "resolving"
  /\ cards[1].pc = "done"
  /\ LET result == cards[1].result
     IN  IF result.success /\ result.thumbnailUrl # NoUrl
         THEN \E head \in ProbeOutcomes :
                LET call == Called(optimized, "verifyHead", head)
                IN  optimized' =
                      IF head = "ok" THEN Returned(call, result.thumbnailUrl)
                      ELSE IF ~apiKey THEN Returned(call, getFallbackThumbnail)
                      ELSE IF shouldSkipApiCall
                           THEN Returned(Called(call, "shouldSkipApiCall", "skip"),
                                         getFallbackThumbnail)
                           ELSE [Called(call, "shouldSkipApiCall", "go") EXCEPT !.pc = "gemini"]
         ELSE optimized' = Returned(optimized, getFallbackThumbnail)
  /\ UNCHANGED <<thumbVars, quotaVars, notOptimizedVars>>

\* the fresh search: generateSearchQuery
FreshGemini ==
  /\ optimized.pc = "gemini"
  /\ \E answered \in BOOLEAN :
       optimized' = [Called(optimized, "gemini", IF answered THEN "ok" ELSE "failed") EXCEPT
                       !.pc = "search"]
  /\ UNCHANGED <<thumbVars, quotaVars, notOptimizedVars>>

\* mutant: a failed search request is sent again, up to three attempts
FreshSearchRetried ==
  /\ optimized.pc = "search"
  /\ \E outcome \in SearchOutcomes, items \in SearchAnswers :
       LET asked == Called(optimized, "search", outcome)
           call == CASE outcome = "ok" -> Called(asked, "recordRequest", "")
                     [] outcome = "quota403" -> Called(asked, "simulateQuotaExceeded", "")
                     [] OTHER -> asked
           video == SelectedVideo(items, cards[1].race.name)
       IN  /\ outcome # "ok" => items = <<>>
           /\ optimized' =
                IF outcome = "ok" /\ video # NoVideo
                THEN [call EXCEPT !.pc = "probe", !.video = video, !.quality = 1]
                ELSE IF outcome = "error"
                        /\ Len(SelectSeq(call.calls, LAMBDA e : e[1] = "search")) < MaxAttempts
                     THEN call
                     ELSE Returned(call, getFallbackThumbnail)
           /\ requestCount' = CASE outcome = "ok" -> requestCount + 1
                                [] outcome = "quota403" -> dailyLimit
                                [] OTHER -> requestCount
           /\ storage' = CASE outcome = "ok" -> saveQuotaInfo(requestCount + 1, dailyLimit, now)
                           [] outcome = "quota403" -> saveQuotaInfo(dailyLimit, dailyLimit, now)
                           [] OTHER -> storage
           /\ recorded' = CASE outcome = "ok" -> IF recorded >= 0 THEN recorded + 1 ELSE recorded
                            [] outcome = "quota403" -> -1
                            [] OTHER -> recorded
  /\ UNCHANGED <<thumbVars, dailyLimit, now, shownQuotaInfo, notOptimizedVars>>

\* the fresh search: the search request and what follows its answer
FreshSearch ==
  /\ optimized.pc = "search"
  /\ \E outcome \in SearchOutcomes, items \in SearchAnswers :
       LET asked == Called(optimized, "search", outcome)
           call == CASE outcome = "ok" -> Called(asked, "recordRequest", "")
                     [] outcome = "quota403" -> Called(asked, "simulateQuotaExceeded", "")
                     [] OTHER -> asked
           video == SelectedVideo(items, cards[1].race.name)
       IN  /\ outcome # "ok" => items = <<>>
           /\ optimized' =
                IF outcome = "ok" /\ video # NoVideo
                THEN [call EXCEPT !.pc = "probe", !.video = video, !.quality = 1]
                ELSE Returned(call, getFallbackThumbnail)
           /\ requestCount' = CASE outcome = "ok" -> requestCount + 1
                                [] outcome = "quota403" -> dailyLimit
                                [] OTHER -> requestCount
           /\ storage' = CASE outcome = "ok" -> saveQuotaInfo(requestCount + 1, dailyLimit, now)
                           [] outcome = "quota403" -> saveQuotaInfo(dailyLimit, dailyLimit, now)
                           [] OTHER -> storage
           /\ recorded' = CASE outcome = "ok" -> IF recorded >= 0 THEN recorded + 1 ELSE recorded
                            [] outcome = "quota403" -> -1
                            [] OTHER -> recorded
  /\ UNCHANGED <<thumbVars, dailyLimit, now, shownQuotaInfo, notOptimizedVars>>

\* the fresh search: the HEAD request for one thumbnail quality
FreshProbe ==
  /\ optimized.pc = "probe"
  /\ \E head \in ProbeOutcomes :
       LET call == Called(optimized, thumbnailQualities[optimized.quality], head)
           testUrl == YouTubeUrl(call.video.videoId, thumbnailQualities[call.quality])
       IN  optimized' =
             IF head = "ok" THEN Returned(call, testUrl)
             ELSE IF call.quality < Len(thumbnailQualities)
                  THEN [call EXCEPT !.quality = @ + 1]
                  ELSE Returned(call, YouTubeUrl(call.video.videoId, "hqdefault.jpg"))
  /\ UNCHANGED <<thumbVars, quotaVars, notOptimizedVars>>

NextResolution ==
  \/ Mount(1)
  \/ StoredCheck(1)
  \/ CacheLookup(1)
  \/ Validate(1)
  \/ CacheDelete(1)
  \/ Gemini(1)
  \/ Search(1)
  \/ Probe(1)
  \/ CacheUpsert(1)
  \/ RaceUpdate(1)
  \/ Similar(1)
  \/ OptimizedVerify
  \/ FreshGemini
  \/ FreshSearch
  \/ FreshProbe

(***************************************************************************)
(* AutoImportService: the checks for new races.  A check is started by one *)
(* of the callers of checkAndImportNewRaces: the two initialize calls (App  *)
(* and DashboardPage), the periodic timer and forceCheck.                  *)
(***************************************************************************)
CURRENT_YEAR == 2026

SEASONS_TO_MONITOR == <<CURRENT_YEAR, CURRENT_YEAR - 1>>

Callers == {"app", "dashboard", "timer", "force"}

\* a race of the API: its season and its round
ApiRace(season, round) == [season |-> season, round |-> round]

\* what fetchF1Season can answer: the first n rounds of the season
SeasonAnswers(season) ==
  {[round \in 1..n |-> ApiRace(season, round)] : n \in 0..MaxRounds}

NotRunning ==
  [pc |-> "idle", season |-> 0, apiRaces |-> <<>>, existing |-> {}, i |-> 0,
   fetches |-> 0, failed |-> {}]

InitImport ==
  /\ isRunning = FALSE
  /\ importInterval = FALSE
  /\ runs = [caller \in Callers |-> NotRunning]
  /\ racesTable \in SUBSET {ApiRace(SEASONS_TO_MONITOR[2], 1)}
  /\ checks = 0

IdleImport ==
  /\ isRunning = FALSE
  /\ importInterval = FALSE
  /\ runs = <<>>
  /\ racesTable = {}
  /\ checks = 0

\* checkAndImportNewRaces has returned to the caller
HasReturned(run) == run.pc \in {"idle", "skipped", "done"}

\* some call of checkAndImportNewRaces is between its awaits
InProgress(run) == run.pc \in {"fetch", "select", "insert"}

\* the loop over SEASONS_TO_MONITOR goes on after importSeasonIfNeeded
\* returned for run.season; after the last season the finally block runs and
\* the call returns (its locals are gone; the number of fetches is kept)
AfterSeason(run) ==
  IF run.season < Len(SEASONS_TO_MONITOR)
  THEN [run EXCEPT !.pc = "fetch", !.season = @ + 1, !.apiRaces = <<>>,
                   !.existing = {}, !.i = 0]
  ELSE [NotRunning EXCEPT !.pc = "done", !.fetches = run.fetches]

\* mutant: the flag is cleared only when no season failed
FlagAfterWithoutFinally(run) ==
  IF run.pc = "done" /\ runs[CHOOSE c \in Callers : InProgress(runs[c])].failed = {}
  THEN FALSE ELSE isRunning

\* the flag after a step that left the run in the given state
FlagAfter(run) == IF run.pc = "done" THEN FALSE ELSE isRunning

\* initialize, once its check returned: startPeriodicCheck
TimerAfter(caller, run) ==
  IF caller \in {"app", "dashboard"} /\ HasReturned(run) THEN TRUE ELSE importInterval

\* mutant: the running flag is not consulted
CheckAndImportNewRacesUnguarded(caller) ==
  /\ checks < MaxChecks
  /\ HasReturned(runs[caller])
  /\ caller = "timer" => importInterval
  /\ caller \in {"app", "dashboard"} => runs[caller].pc = "idle"
  /\ checks' = checks + 1
  /\ LET run == [NotRunning EXCEPT !.pc = "fetch", !.season = 1]
     IN  /\ runs' = [runs EXCEPT ![caller] = run]
         /\ isRunning' = TRUE
         /\ importInterval' = TimerAfter(caller, run)
  /\ UNCHANGED <<racesTable, notImportVars>>

\* checkAndImportNewRaces up to its first await
CheckAndImportNewRaces(caller) ==
  /\ checks < MaxChecks
  /\ HasReturned(runs[caller])
  /\ caller = "timer" => importInterval
  /\ caller \in {"app", "dashboard"} => runs[caller].pc = "idle"
  /\ checks' = checks + 1
  /\ LET run == IF isRunning THEN [NotRunning EXCEPT !.pc = "skipped"]
                ELSE [NotRunning EXCEPT !.pc = "fetch", !.season = 1]
     IN  /\ runs' = [runs EXCEPT ![caller] = run]
         /\ isRunning' = TRUE
         /\ importInterval' = TimerAfter(caller, run)
  /\ UNCHANGED <<racesTable, notImportVars>>

\* importSeasonIfNeeded: fetchF1Season answers or throws
FetchSeason(caller) ==
  /\ runs[caller].pc = "fetch"
  /\ \E ok \in BOOLEAN, apiRaces \in SeasonAnswers(SEASONS_TO_MONITOR[runs[caller].season]) :
       LET fetched == [runs[caller] EXCEPT !.fetches = @ + 1]
           run == IF ~ok THEN AfterSeason([fetched EXCEPT !.failed = @ \cup {fetched.season}])
                  ELSE IF apiRaces = <<>> THEN AfterSeason(fetched)
                  ELSE [fetched EXCEPT !.pc = "select", !.apiRaces = apiRaces]
       IN  /\ ~ok => apiRaces = <<>>
           /\ runs' = [runs EXCEPT ![caller] = run]
           /\ isRunning' = FlagAfter(run)
           /\ importInterval' = TimerAfter(caller, run)
  /\ UNCHANGED <<racesTable, checks, notImportVars>>

\* the loop over apiRaces from position from: it stops at the next race that
\* is not among the existing ones (the insert is awaited there), and with none
\* left importSeasonIfNeeded returns
LoopFrom(run, from) ==
  LET missing == {j \in from..Len(run.apiRaces) : run.apiRaces[j] \notin run.existing}
  IN  IF missing = {} THEN AfterSeason(run)
      ELSE [run EXCEPT !.pc = "insert", !.i = CHOOSE k \in missing : \A l \in missing : k <= l]

\* importSeasonIfNeeded: the select of the season's rows of races
SelectExisting(caller) ==
  /\ runs[caller].pc = "select"
  /\ \E dbOk \in BOOLEAN :
       LET season == SEASONS_TO_MONITOR[runs[caller].season]
           run == IF ~dbOk
                  THEN AfterSeason([runs[caller] EXCEPT !.failed = @ \cup {runs[caller].season}])
                  ELSE LoopFrom([runs[caller] EXCEPT
                                   !.existing = {r \in racesTable : r.season = season}], 1)
       IN  /\ runs' = [runs EXCEPT ![caller] = run]
           /\ isRunning' = FlagAfter(run)
           /\ importInterval' = TimerAfter(caller, run)
  /\ UNCHANGED <<racesTable, checks, notImportVars>>

\* importSeasonIfNeeded: the insert of one race; its failure is logged and
\* the loop goes on
InsertRace(caller) ==
  /\ runs[caller].pc = "insert"
  /\ \E dbOk \in BOOLEAN :
       LET old == runs[caller]
           run == LoopFrom(old, old.i + 1)
       IN  /\ racesTable' = IF dbOk THEN racesTable \cup {old.apiRaces[old.i]} ELSE racesTable
           /\ runs' = [runs EXCEPT ![caller] = run]
           /\ isRunning' = FlagAfter(run)
           /\ importInterval' = TimerAfter(caller, run)
  /\ UNCHANGED <<checks, notImportVars>>

NextImport ==
  \/ \E caller \in Callers : CheckAndImportNewRaces(caller)
  \/ \E caller \in Callers : FetchSeason(caller)
  \/ \E caller \in Callers : SelectExisting(caller)
  \/ \E caller \in Callers : InsertRace(caller)

InitOfTree == InitTree /\ InitQuota /\ IdlePage /\ IdleThumb /\ IdleEdge /\ IdleSelect /\ IdleOptimized /\ IdleImport

InitOfQuota == IdleTree /\ InitQuota /\ IdlePage /\ IdleThumb /\ IdleEdge /\ IdleSelect /\ IdleOptimized /\ IdleImport

InitOfPage == IdleTree /\ InitQuota /\ InitPage /\ IdleThumb /\ IdleEdge /\ IdleSelect /\ IdleOptimized /\ IdleImport

InitOfThumb == IdleTree /\ InitQuota /\ IdlePage /\ InitThumb /\ IdleEdge /\ IdleSelect /\ IdleOptimized /\ IdleImport

InitOfEdge == IdleTree /\ InitQuota /\ IdlePage /\ IdleCards /\ InitEdge /\ IdleSelect /\ IdleOptimized /\ IdleImport

InitOfSelect == IdleTree /\ InitQuota /\ IdlePage /\ IdleThumb /\ IdleEdge /\ InitSelect /\ IdleOptimized /\ IdleImport

SpecTree == InitOfTree /\ [][NextTree]_vars

SpecQuota == InitOfQuota /\ [][NextQuota]_vars

SpecPage == InitOfPage /\ [][NextPage]_vars

SpecThumb == InitOfThumb /\ [][NextThumb]_vars

SpecEdge == InitOfEdge /\ [][NextEdge]_vars

SpecSelect == InitOfSelect /\ [][NextSelect]_vars

InitOfResolution == IdleTree /\ InitQuota /\ IdlePage /\ InitResolution /\ IdleEdge /\ IdleSelect /\ IdleImport

SpecResolution == InitOfResolution /\ [][NextResolution]_vars

\* the race cards of a dashboard loaded with one request left for the day
InitOfThrottle ==
  /\ IdleTree /\ InitQuotaNearCeiling /\ IdlePage /\ InitThumb /\ IdleEdge /\ IdleSelect
  /\ IdleOptimized /\ IdleImport
  /\ apiKey

SpecThrottle == InitOfThrottle /\ [][NextThumb]_vars

\* every awaited request of the resolution in slot 1 settles
ResolutionStep ==
  \/ StoredCheck(1) \/ CacheLookup(1) \/ Validate(1) \/ CacheDelete(1) \/ Gemini(1)
  \/ Search(1) \/ Probe(1) \/ CacheUpsert(1) \/ RaceUpdate(1) \/ Similar(1)

SpecResolutionLive ==
  InitOfResolution /\ [][NextResolution]_vars /\ WF_vars(ResolutionStep)

InitOfDeepPage ==
  /\ IdleTree /\ InitQuota /\ InitDeepPage /\ IdleThumb /\ IdleEdge /\ IdleSelect
  /\ IdleOptimized /\ IdleImport

\* the race page used only to reply
SpecDeepPage == InitOfDeepPage /\ [][ReplyToReview]_vars

InitOfImport ==
  IdleTree /\ InitQuota /\ IdlePage /\ IdleThumb /\ IdleEdge /\ IdleSelect /\ IdleOptimized /\ InitImport

SpecImport == InitOfImport /\ [][NextImport]_vars

\* every awaited request of a run settles: it answers or it fails
ImportStep(caller) == FetchSeason(caller) \/ SelectExisting(caller) \/ InsertRace(caller)

SpecImportLive ==
  InitOfImport /\ [][NextImport]_vars /\ \A caller \in Callers : WF_vars(ImportStep(caller))

(***************************************************************************)
(* Claims about the review tree assembly.                                  *)
(***************************************************************************)
AllParentsPresent(rs) ==
  \A i \in 1..Len(rs) :
    rs[i].parent_review_id # NoParent => rs[i].parent_review_id \in ReviewIdsOf(rs)

IsSortedByCreated(rs, ids) ==
  \A i \in 1..Len(ids) : \A j \in 1..Len(ids) :
    i < j => ReviewOf(rs, ids[i]).created_at <= ReviewOf(rs, ids[j]).created_at

ForestNodes(rs, f) == NodesOf(f, f.top, Len(rs) + 1)

Orphans(rs) ==
  {id \in ReviewIdsOf(rs) :
     /\ ReviewOf(rs, id).parent_review_id # NoParent
     /\ ReviewOf(rs, id).parent_review_id \notin ReviewIdsOf(rs)}

C2_OrphansExcluded ==
  treePc = "done" =>
    \A o \in Orphans(allReviews) :
      ({o} \cup NodesOf(topLevelReviews, topLevelReviews.replies[o], Len(allReviews) + 1))
        \cap ForestNodes(allReviews, topLevelReviews) = {}

\* C2 witness: an orphaned reply was handed in next to a top-level review,
\* and the returned forest holds fewer nodes than the input list
C2_Witness ==
  /\ treePc = "done"
  /\ topLevelReviews.top # <<>>
  /\ Orphans(allReviews) # {}
  /\ Cardinality(ForestNodes(allReviews, topLevelReviews)) < Len(allReviews)

(***************************************************************************)
(* Claims about the quota manager.                                         *)
(***************************************************************************)
\* C6: starting from a counter of zero, after exactly N recordRequest calls,
\* N the configured ceiling, getQuotaStatus reports "Quota Exceeded" and
\* shouldSkipApiCall is true; after fewer than N calls shouldSkipApiCall is
\* false.
C6_ExceededAtCeiling ==
  recorded >= 0 =>
    /\ recorded = dailyLimit => (getQuotaStatus = "Quota Exceeded" /\ shouldSkipApiCall)
    /\ recorded < dailyLimit => ~shouldSkipApiCall

\* C6 witness: the ceiling was reached by recorded calls alone
C6_Witness ==
  /\ recorded = dailyLimit
  /\ recorded >= 2
  /\ storage # NoItem
  /\ storage.usedQuota = recorded

\* C8 (as claimed): once the clock has passed the stored reset boundary the
\* counter is zero and canMakeRequest is true, also for an instance that
\* was running when the boundary passed.
C8_ResetAfterBoundary ==
  (storage # NoItem /\ now > storage.resetTime) =>
    (requestCount = 0 /\ canMakeRequest)

\* C9 (as claimed): with the persisted item removed, getQuotaInfo reports
\* usedQuota 0 and the full ceiling as remaining, and canMakeRequest is true.
C9_RemovalResets ==
  storage = NoItem =>
    /\ getQuotaInfo.usedQuota = 0
    /\ getQuotaInfo.remainingQuota = dailyLimit
    /\ shownQuotaInfo.usedQuota = 0
    /\ canMakeRequest

C10_RepliesUnrated ==
  \A r \in dbReviews : r.parent_review_id # NoParent => r.rating = NullRating

(***************************************************************************)
(* Claims about the race card and the thumbnail service.                   *)
(***************************************************************************)
CallNames(card) == {card.calls[i][1] : i \in 1..Len(card.calls)}

Issued(card, call) == call \in CallNames(card)

IssuedWith(card, call, outcome) ==
  \E i \in 1..Len(card.calls) : card.calls[i] = <<call, outcome>>

KeyRows(card) == RowsOf(cache, card.race.name, card.race.year)

\* C3 (as claimed): a mounted card of a race dated strictly after the
\* clock has issued no call at all and shows the placeholder.
C3_NoCallAtAll ==
  \A c \in Cards :
    (cards[c].pc # "unmounted" /\ cards[c].race.date > now) =>
      /\ cards[c].calls = <<>>
      /\ Shown(cards[c]) = "placeholder"

\* C3 (amended): a mounted card of a race dated strictly after the clock
\* shows the placeholder and no Official badge, and has issued exactly the
\* review statistics query and the request for the placeholder's image; no
\* call of the thumbnail resolution is among its calls.
C3_OnlyStatsAndPlaceholder ==
  \A c \in Cards :
    (cards[c].pc # "unmounted" /\ cards[c].race.date > now) =>
      /\ cards[c].pc = "done"
      /\ CallNames(cards[c]) = {"placeholderImage", "stats"}
      /\ Len(cards[c].calls) = 2
      /\ Shown(cards[c]) = "placeholder"
      /\ ~OfficialBadge(cards[c])
      /\ cards[c].result = NoResult

\* C3 witness: a card of a race after the clock is mounted
C3_Witness ==
  \E c \in Cards : cards[c].pc # "unmounted" /\ cards[c].race.date > now

\* C4: a resolution whose cached entry answered its existence check with
\* success returns that entry's URL with cached = true, has issued no search
\* request and has recorded no request with the quota manager; the step that
\* returns it leaves the request counter as it was.
C4_CacheHitNoSearch ==
  /\ [](\A c \in Cards :
         (cards[c].pc = "done" /\ IssuedWith(cards[c], "cacheHead", "ok")) =>
           /\ cards[c].row.race_name = cards[c].race.name
           /\ cards[c].row.year = cards[c].race.year
           /\ cards[c].result.success
           /\ cards[c].result.cached
           /\ cards[c].result.thumbnailUrl = cards[c].row.thumbnail_url
           /\ cards[c].thumbnailUrl = cards[c].row.thumbnail_url
           /\ ~Issued(cards[c], "search")
           /\ ~Issued(cards[c], "recordRequest"))
  /\ [][\A c \in Cards :
         (cards[c].pc = "validate" /\ cards'[c].pc = "done") =>
           requestCount' = requestCount]_vars

\* C4 witness: a resolution ended on a cached entry whose check succeeded
C4_Witness ==
  \E c \in Cards :
    /\ cards[c].pc = "done"
    /\ IssuedWith(cards[c], "cacheHead", "ok")
    /\ cards[c].row \in SeedRows

\* C5 (as claimed): after a failed existence check of the cached entry (a
\* non-success answer, a network error or a timeout) the entry is gone from the
\* cache and the search request was issued.
C5_RemovedAndSearched ==
  \A c \in Cards :
    (/\ cards[c].pc = "done"
     /\ \/ IssuedWith(cards[c], "cacheHead", "notOk")
        \/ IssuedWith(cards[c], "cacheHead", "throws")) =>
      /\ KeyRows(cards[c]) = {}
      /\ Issued(cards[c], "search")

\* C5 (amended): after a non-success answer the resolver issues a delete for
\* the entry, and the entry is gone when the delete is applied and kept when it
\* fails; after a network error or a timeout no delete is issued and the entry
\* stays; in both cases the resolver goes on to the search, whose request is
\* issued exactly when an API key is configured and the quota manager does not
\* ask to skip.
C5_RemovedOnlyOnAnswer ==
  \A c \in Cards :
    LET card == cards[c]
    IN  /\ (IssuedWith(card, "cacheHead", "notOk") /\ card.pc # "cacheDelete") =>
             /\ Issued(card, "cacheDelete")
             /\ IssuedWith(card, "cacheDelete", "ok") => KeyRows(card) = {}
             /\ IssuedWith(card, "cacheDelete", "failed") => card.row \in cache
        /\ IssuedWith(card, "cacheHead", "throws") =>
             /\ ~Issued(card, "cacheDelete")
             /\ card.row \in cache
        /\ (/\ card.pc = "done"
            /\ \/ IssuedWith(card, "cacheHead", "notOk")
               \/ IssuedWith(card, "cacheHead", "throws")) =>
             /\ Issued(card, "shouldSkipApiCall") <=> apiKey
             /\ Issued(card, "search") <=> IssuedWith(card, "shouldSkipApiCall", "go")

\* C5 witness: a validation request threw, the entry is still cached and the
\* resolution went through the search request
C5_Witness ==
  \E c \in Cards :
    /\ cards[c].pc = "done"
    /\ IssuedWith(cards[c], "cacheHead", "throws")
    /\ cards[c].row \in cache
    /\ Issued(cards[c], "search")

\* the expected highlights title, "Race Highlights | {year} {race} Grand Prix"
ExpectedTitle(raceName, year) ==
  [kind |-> "Race Highlights", gp |-> NormalizedRaceName(raceName), year |-> year]

\* the case of C7: a past race without stored thumbnail, nothing cached for
\* it, the expected video of the official channel selected, its
\* max-resolution thumbnail answering ok
C7_Case(card) ==
  /\ card.pc = "done"
  /\ hasHappened(card.race)
  /\ card.race.thumbnail_url = NoUrl
  /\ IssuedWith(card, "cacheSelect", "ok")
  /\ card.row = NoRow
  /\ card.video # NoVideo
  /\ card.video.channelId = FORMULA_1_CHANNEL_ID
  /\ card.video.title = ExpectedTitle(card.race.name, card.race.year)
  /\ IssuedWith(card, "maxresdefault.jpg", "ok")

\* C7 (as claimed): in that case the cache holds an entry for the race name
\* and year with the video's max-resolution thumbnail, the resolver returned
\* that URL, and the card shows it marked official.
C7_CachedReturnedOfficial ==
  \A c \in Cards :
    C7_Case(cards[c]) =>
      LET url == YouTubeUrl(cards[c].video.videoId, "maxresdefault.jpg")
      IN  /\ cards[c].result.success
          /\ cards[c].result.thumbnailUrl = url
          /\ cards[c].thumbnailUrl = url
          /\ OfficialBadge(cards[c])
          /\ \E row \in KeyRows(cards[c]) : row.thumbnail_url = url

\* the static images that stand in for a thumbnail
GenericImages == {ImportedImage, FallbackImage, NoMatchImage}

\* C11 (as claimed): a card that marks its thumbnail official shows no generic
\* static image, the image the race import stores included.
C11_OfficialNeverGeneric ==
  \A c \in Cards :
    cards[c].isOfficialThumbnail => cards[c].thumbnailUrl \notin GenericImages

\* the steps of the resolution of one card
StepOf(c) ==
  \/ StoredCheck(c) \/ CacheLookup(c) \/ Validate(c) \/ CacheDelete(c)
  \/ Gemini(c) \/ Search(c) \/ Probe(c) \/ CacheUpsert(c) \/ RaceUpdate(c)
  \/ Similar(c)

\* the card called getRaceHighlightThumbnail
ResolverCalled(card) == Issued(card, "cacheSelect")

\* C12: whichever steps of a resolution failed, the resolution is never
\* stuck (an unfinished one always has a next step) and ends with a result
\* value: a success, or success = false with an error text; a search that
\* selected a video stays a success with that video when the cache write or the
\* race write-back fails.
C12_NeverPropagates ==
  \A c \in Cards :
    LET card == cards[c]
    IN  /\ card.pc \notin {"unmounted", "done"} => ENABLED StepOf(c)
        /\ (card.pc = "done" /\ ResolverCalled(card)) =>
             /\ card.result # NoResult
             /\ card.result.success \/ card.result.error # ""
             /\ ~card.thumbnailLoading
        /\ (card.pc = "done" /\ card.video # NoVideo) =>
             /\ card.result.success
             /\ card.result.videoId = card.video.videoId
             /\ ~card.result.cached

\* C12 witness: the cache lookup, the query generation, the cache write and
\* the write-back all failed and the resolution ended as a success
C12_Witness ==
  \E c \in Cards :
    /\ cards[c].pc = "done"
    /\ IssuedWith(cards[c], "cacheSelect", "failed")
    /\ IssuedWith(cards[c], "gemini", "failed")
    /\ IssuedWith(cards[c], "cacheUpsert", "failed")
    /\ IssuedWith(cards[c], "raceUpdate", "failed")
    /\ cards[c].result.success

(***************************************************************************)
(* Claims about the race-thumbnails edge function.                         *)
(***************************************************************************)
\* C13 (as claimed): the video behind a successful thumbnail response comes
\* from the official channel and has 'highlight' in its title, and no row of
\* the cache holds a video of another channel.
C13_OnlyOfficialChannel ==
  /\ edge.video # NoVideo =>
       /\ edge.video.channelId = FORMULA_1_CHANNEL_ID
       /\ TitleIncludesHighlight(edge.video.title)
  /\ \A row \in cache : \A v \in EdgeVideoPool :
       v.videoId = row.video_id => v.channelId = FORMULA_1_CHANNEL_ID

\* C14 (as claimed): every error response of the thumbnail endpoint, of the
\* cache endpoints and of the routing is structured JSON with its status: 400
\* for a missing raceName, 404 when the search finds no official highlights,
\* 404 for an unknown endpoint, 500 for any other failure.
C14_StatusOfErrors ==
  (/\ edge.request # NoRequest
   /\ ~edge.response.success
   /\ Route(edge.request) \notin {"preflight", "health"}) =>
    /\ edge.response.json
    /\ edge.response.status =
         CASE Route(edge.request) = "thumbnail" /\ edge.request.raceName = "" -> 400
           [] edge.response.error = EdgeErrNoOfficial -> 404
           [] Route(edge.request) = "notFound" -> 404
           [] OTHER -> 500

(***************************************************************************)
(* Claims about the selection among the search results.                    *)
(***************************************************************************)
\* the first item of a list that passes a test, NoVideo for none
FirstWhere(items, Test(_)) ==
  LET passing == SelectSeq(items, Test)
  IN  IF passing = <<>> THEN NoVideo ELSE passing[1]

\* C16 (as claimed): the loop selects the first item whose title is the
\* expected "Race Highlights | {year} {race} Grand Prix" when the answer holds
\* one anywhere, and otherwise the first item whose title has the race name
\* and a highlights keyword.
C16_ExactTitleFirst ==
  selected # Pending =>
    LET year == (CHOOSE k \in RaceKeys : k.name = answer.raceName).year
        IsExact(item) == item.title = ExpectedTitle(answer.raceName, year)
        IsLoose(item) ==
          TitleIncludesHighlight(item.title) /\ TitleIncludesRace(item.title, answer.raceName)
        exact == FirstWhere(answer.items, IsExact)
    IN  selected = IF exact # NoVideo THEN exact ELSE FirstWhere(answer.items, IsLoose)

(***************************************************************************)
(* Claims about the probes of the thumbnail qualities.                     *)
(***************************************************************************)
\* the probes a card has issued, in order, with their outcomes
ProbeCalls(card) ==
  LET IsProbe(e) == \E i \in 1..Len(thumbnailQualities) : e[1] = thumbnailQualities[i]
  IN  SelectSeq(card.calls, IsProbe)

\* the search of the card found a video and its probes are over
Probed(card) == card.video # NoVideo /\ card.pc # "probe"

\* C17 (as claimed): when no probe of the selected video answers ok, the
\* resolver returns the URL of the last quality of the list, default.jpg.
C17_DefaultWhenNoneAnswers ==
  \A c \in DOMAIN cards :
    LET probes == ProbeCalls(cards[c])
    IN  (Probed(cards[c]) /\ \A i \in 1..Len(probes) : probes[i][2] = "failed") =>
          cards[c].result.thumbnailUrl = YouTubeUrl(cards[c].video.videoId, "default.jpg")

\* C17 (amended): the probes go through maxresdefault, hqdefault, mqdefault,
\* sddefault, default in this order, each after the failure of the one before;
\* the first that answers ok ends them and its URL is returned; when all five
\* fail the hqdefault.jpg URL is returned and no further request checks it.
C17_ProbesInOrder ==
  \A c \in DOMAIN cards :
    LET card == cards[c]
        probes == ProbeCalls(card)
        n == Len(probes)
    IN  /\ n <= Len(thumbnailQualities)
        /\ \A i \in 1..n : probes[i][1] = thumbnailQualities[i]
        /\ \A i \in 1..n : i < n => probes[i][2] = "failed"
        /\ card.pc = "probe" => card.quality = n + 1 /\ \A i \in 1..n : probes[i][2] = "failed"
        /\ Probed(card) =>
             /\ n >= 1
             /\ probes[n][2] = "ok" =>
                  card.result.thumbnailUrl = YouTubeUrl(card.video.videoId, probes[n][1])
             /\ probes[n][2] = "failed" =>
                  /\ n = Len(thumbnailQualities)
                  /\ card.result.thumbnailUrl = YouTubeUrl(card.video.videoId, "hqdefault.jpg")
             /\ card.result.success

\* a card whose five probes all failed has been given the hqdefault.jpg URL
C17_Witness ==
  \E c \in DOMAIN cards :
    /\ cards[c].pc = "done"
    /\ Len(ProbeCalls(cards[c])) = Len(thumbnailQualities)
    /\ \A i \in 1..Len(thumbnailQualities) : ProbeCalls(cards[c])[i][2] = "failed"
    /\ cards[c].thumbnailUrl = YouTubeUrl(cards[c].video.videoId, "hqdefault.jpg")

(***************************************************************************)
(* Claims about the quota failure and the fallback image.                  *)
(***************************************************************************)
\* the search of the card ended with a quota failure, reported or skipped
QuotaFailed(card) ==
  \/ IssuedWith(card, "shouldSkipApiCall", "skip")
  \/ IssuedWith(card, "search", "quota403")
  \/ IssuedWith(card, "search", "quotaLike")

\* the search of the card ended with no acceptable match or another failure
\* that is not about the quota
SearchFailedOtherwise(card) ==
  /\ card.result # NoResult
  /\ ~card.result.success
  /\ ~ErrorIncludesQuota(card.result.error)

\* C18: after a quota failure of the search (reported by the API or skipped by
\* the throttle) the resolver asks the cache for an entry of the same year
\* before it ends; when that request answers and such an entry exists, the card
\* shows the entry's thumbnail, and otherwise the static fallback image; every
\* resolution whose search ends without an acceptable match (or with another
\* failure) shows the static fallback image, with no request for a similar entry.
C18_SimilarBeforeFallback ==
  /\ [](\A c \in Cards :
          LET card == cards[c]
          IN  /\ (card.pc = "done" /\ QuotaFailed(card)) => Issued(card, "similarSelect")
              /\ card.pc = "similar" <=> (QuotaFailed(card) /\ ~Issued(card, "similarSelect"))
              /\ (card.pc = "done" /\ SearchFailedOtherwise(card)) =>
                   /\ card.thumbnailUrl = FallbackImage
                   /\ ~OfficialBadge(card)
                   /\ ~Issued(card, "similarSelect"))
  /\ [][\A c \in Cards :
          (cards[c].pc = "similar" /\ cards'[c].pc = "done") =>
            LET rows == {r \in cache : r.year = cards[c].race.year}
            IN  IF rows # {} /\ IssuedWith(cards'[c], "similarSelect", "ok")
                THEN /\ \E r \in rows : cards'[c].result = FromRow(r, TRUE)
                     /\ cards'[c].thumbnailUrl = cards'[c].result.thumbnailUrl
                ELSE /\ cards'[c].thumbnailUrl = FallbackImage
                     /\ ~cards'[c].result.success
                     /\ ~OfficialBadge(cards'[c])]_vars

\* a card whose search hit the quota shows the thumbnail of another race of
\* the year, and the other card, whose search found no match, shows the fallback
C18_Witness ==
  \E c, d \in Cards :
    /\ cards[c].pc = "done"
    /\ QuotaFailed(cards[c])
    /\ cards[c].result.success /\ cards[c].result.fallback
    /\ cards[c].result.videoTitle.gp # NormalizedRaceName(cards[c].race.name)
    /\ cards[d].pc = "done"
    /\ cards[d].result # NoResult
    /\ cards[d].result.error = ErrNoMatch
    /\ cards[d].thumbnailUrl = FallbackImage

(***************************************************************************)
(* Claims about the throttle after a quota answer.                         *)
(***************************************************************************)
\* some search request of the process was answered 403 with a quota message
QuotaAnswered == \E d \in Cards : IssuedWith(cards[d], "search", "quota403")

\* the card enters searchYouTubeHighlights in this step: the throttle is asked
EntersSearch(c) ==
  /\ ~Issued(cards[c], "shouldSkipApiCall")
  /\ Issued(cards'[c], "shouldSkipApiCall")

\* C19: once a search request was answered 403 with a quota message the
\* throttle is exceeded (isQuotaExceeded true, canMakeRequest false), and every
\* search entered after that is skipped: it issues neither the query request
\* nor the search request.
C19_SkippedAfterQuotaAnswer ==
  /\ [](QuotaAnswered => isQuotaExceeded /\ ~canMakeRequest)
  /\ [][\A c \in Cards :
          (QuotaAnswered /\ EntersSearch(c)) =>
            IssuedWith(cards'[c], "shouldSkipApiCall", "skip")]_vars
  /\ [](\A c \in Cards :
          IssuedWith(cards[c], "shouldSkipApiCall", "skip") =>
            /\ ~Issued(cards[c], "gemini")
            /\ ~Issued(cards[c], "search")
            /\ cards[c].pc \in {"similar", "done"})

\* one card's search was answered with the quota error, and the other card,
\* which came to its search afterwards, ended without a request
C19_Witness ==
  \E c, d \in Cards :
    /\ IssuedWith(cards[d], "search", "quota403")
    /\ cards[c].pc = "done"
    /\ IssuedWith(cards[c], "shouldSkipApiCall", "skip")
    /\ ~Issued(cards[c], "search")

(***************************************************************************)
(* Claims about retries within one resolution.                             *)
(***************************************************************************)
\* how often a request was issued by the holder of a call log
TimesIssued(holder, call) ==
  LET IsCall(e) == e[1] = call
  IN  Len(SelectSeq(holder.calls, IsCall))

\* the requests of a resolution
ResolutionCalls ==
  {"storedHead", "cacheSelect", "cacheHead", "cacheDelete", "gemini", "search",
   "cacheUpsert", "raceUpdate", "similarSelect", "shouldSkipApiCall", "verifyHead"}
    \cup {thumbnailQualities[i] : i \in 1..Len(thumbnailQualities)}

\* C20 (as claimed): within one resolution the stored-URL check, the cache
\* lookup, the cache validation, the search request and each quality probe are
\* issued at most once.
C20_EachStepOnce ==
  \A call \in {"storedHead", "cacheSelect", "cacheHead", "search"}
                \cup {thumbnailQualities[i] : i \in 1..Len(thumbnailQualities)} :
    TimesIssued(cards[1], call) + TimesIssued(optimized, call) <= 1

\* C20 (amended): a race card's resolution, and the call of
\* getRaceHighlightThumbnail inside getOptimizedThumbnail, issue each request at
\* most once, so a card's resolution sends at most one search request;
\* getOptimizedThumbnail itself verifies the URL it got once and, only after
\* that verification failed, runs the search a second time, each request of
\* which is again issued at most once: at most two search requests in all.
C20_OnceExceptFreshSearch ==
  /\ \A call \in ResolutionCalls :
       /\ TimesIssued(cards[1], call) <= 1
       /\ TimesIssued(optimized, call) <= 1
  /\ optimized = NotOptimized => TimesIssued(cards[1], "search") + TimesIssued(optimized, "search") <= 1
  /\ optimized.calls # <<>> => cards[1].pc = "done" /\ optimized.calls[1][1] = "verifyHead"
  /\ Len(optimized.calls) > 1 => optimized.calls[1] = <<"verifyHead", "failed">>

\* a call of getOptimizedThumbnail has returned after two search requests
C20_Witness ==
  /\ optimized.pc = "returned"
  /\ IssuedWith(cards[1], "search", "ok")
  /\ IssuedWith(optimized, "verifyHead", "failed")
  /\ IssuedWith(optimized, "search", "ok")

(***************************************************************************)
(* Claims about the auto-import service.                                   *)
(***************************************************************************)
\* the callers whose check is between its awaits
RunningCallers == {caller \in Callers : InProgress(runs[caller])}

\* the caller starts a check in this step
StartsCheck(caller) == HasReturned(runs[caller]) /\ checks' = checks + 1 /\ runs'[caller] # runs[caller]

\* C21: at most one run of the auto-import is in progress at any time, and
\* the flag is set exactly while one is; a check started while a run is in
\* progress returns at once: it has fetched no season and the races table is
\* as it was.
C21_OneRunAtATime ==
  /\ [](/\ Cardinality(RunningCallers) <= 1
        /\ isRunning <=> RunningCallers # {})
  /\ [][\A caller \in Callers :
          (RunningCallers # {} /\ StartsCheck(caller)) =>
            /\ runs'[caller].pc = "skipped"
            /\ runs'[caller].fetches = 0
            /\ racesTable' = racesTable
            /\ RunningCallers' = RunningCallers]_vars

\* while the check of the first initialize waits for an answer, the second
\* initialize, the timer and forceCheck have each come back without a run
C21_Witness ==
  /\ InProgress(runs["app"])
  /\ runs["dashboard"].pc = "skipped"
  /\ runs["force"].pc = "skipped"

WritersOf(key) ==
  {c \in Cards : /\ cards[c].race.name = key.name
                 /\ cards[c].race.year = key.year
                 /\ Issued(cards[c], "cacheUpsert")}

\* C22 (as claimed): the cache holds at most one entry per race name and
\* year, and once every resolution that sent an upsert for the key has
\* finished, the entry of the key is the row one of them sent.
C22_LastUpsertWins ==
  \A key \in RaceKeys :
    /\ Cardinality(RowsOf(cache, key.name, key.year)) <= 1
    /\ (WritersOf(key) # {} /\ \A c \in WritersOf(key) : cards[c].pc = "done") =>
         \E c \in WritersOf(key), row \in RowsOf(cache, key.name, key.year) :
           /\ row.video_id = cards[c].result.videoId
           /\ row.thumbnail_url = cards[c].result.thumbnailUrl

(***************************************************************************)
(* Claims about the throttle under concurrent resolutions.                 *)
(***************************************************************************)
\* C23 (as claimed): with every resolution asking shouldSkipApiCall before
\* its search, the quota counter never exceeds the daily ceiling.
C23_NeverOverCeiling == requestCount <= dailyLimit

(***************************************************************************)
(* Claims about the form of the race page and the replies.                 *)
(***************************************************************************)
\* the reply rows of the table that the step changes in place
RepliesModified ==
  {r \in dbReviews :
     /\ r.parent_review_id # NoParent
     /\ r \notin dbReviews'
     /\ \E q \in dbReviews' : q.id = r.id}

\* C24 (as claimed): while the user has not pressed edit on a reply, no step
\* of the page (the submit of the form included) changes a reply row in place.
C24_SubmitLeavesReplies ==
  [][(editingReview = NoReview \/ editingReview.parent_review_id = NoParent) =>
       RepliesModified = {}]_vars

\* C25 (as claimed): the thumbnail URL a resolution sends to the cache in its
\* upsert answered ok to a probe of that resolution.
C25_CachedUrlWasChecked ==
  \A c \in Cards :
    Issued(cards[c], "cacheUpsert") =>
      IssuedWith(cards[c], cards[c].result.thumbnailUrl.file, "ok")

(***************************************************************************)
(* Claims about the end of a card's thumbnail load.                        *)
(***************************************************************************)
\* slot 1 holds a race card that entered loadThumbnail
CardLoading ==
  /\ optimized = NotOptimized
  /\ cards[1].pc \notin {"unmounted", "done"}

SameNumber(a, b) == a.num * b.den = b.num * a.den

\* C28 (as claimed): for the reviews of the race, the average the race card
\* computes is the average the race page computes.
C28_SameAverage ==
  SameNumber(fetchRaceStats(NewestFirst(dbReviews)),
             calculateAverageRating(NewestFirst(dbReviews)))

(***************************************************************************)
(* Claims about the persisted quota record.                                *)
(***************************************************************************)
\* the daily reset: a page load after the stored reset time
DailyReset == Reload /\ storage # NoItem /\ now > storage.resetTime

RECURSIVE NestingDepth(_, _, _)
NestingDepth(rows, r, fuel) ==
  IF fuel = 0 \/ r.parent_review_id = NoParent THEN 0
  ELSE LET above == {q \in rows : q.id = r.parent_review_id}
       IN  IF above = {} THEN 0
           ELSE 1 + NestingDepth(rows, CHOOSE q \in above : TRUE, fuel - 1)

\* C30: a reply is inserted only below a card rendered at a depth under
\* maxDepth, and no row of the table is nested deeper than maxDepth, after any
\* sequence of submits, replies, edits and deletes on the race page.
C30_DepthBounded ==
  /\ [](\A r \in dbReviews : NestingDepth(dbReviews, r, Cardinality(dbReviews)) <= maxDepth)
  /\ [][\A r \in dbReviews' :
          (r.parent_review_id # NoParent /\ \A q \in dbReviews : q.id # r.id) =>
            \E card \in RenderedCards(reviews) :
              card[1] = r.parent_review_id /\ card[2] < maxDepth]_vars

\* a reply stands at depth maxDepth, and its card offers no reply form
C30_Witness ==
  \E r \in dbReviews :
    /\ NestingDepth(dbReviews, r, Cardinality(dbReviews)) = maxDepth
    /\ <<r.id, maxDepth>> \in RenderedCards(reviews)
    /\ nextId <= MaxRows

====
